---------------------------- MODULE Spec2Model ----------------------------
(***************************************************************************)
(* Space extraction and metric aggregation of rust-code-analysis:          *)
(*   src/src/spaces.rs          metrics(), finalize(), FuncSpace,          *)
(*                              CodeMetrics, ChosenMetrics                 *)
(*   src/src/ops.rs             operands_and_operators(), finalize(), Ops  *)
(*   src/src/metrics/nexits.rs  the exit-point Stats and the Exit hooks    *)
(*                                                                         *)
(* A syntax tree is a pre-order numbered sequence of nodes 1..n: kind[i]   *)
(* is the grammar kind of node i, parent[i] its parent (0 for the root),   *)
(* fields[i] the grammar fields the Rust Exit hook asks for, text[i] the    *)
(* bytes of the operand token the node carries.  Pre-order numbering is     *)
(* document order.  Options are sequences of length at most one: None is    *)
(* << >>, Some(x) is <<x>>.  Byte strings are sequences of numbers 0..255.  *)
(***************************************************************************)
EXTENDS Integers, Sequences, FiniteSets, TLC

\* ------------------------------------------------------------------ bounds

\* Largest number of nodes of an enumerated syntax tree.
MaxNodes == 4

\* Largest row of a node handed to FuncSpace::new / Ops::new on its own.
MaxRow == 2

\* Largest counter value of an exit-point Stats handled on its own.
MaxExits == 4

\* Largest length of an arbitrary list of metrics handed to ChosenMetrics::new;
\* the lists naming all seven metrics come on top of these.
MaxList == 3

\* Largest line count, branch count and token count of a scope State handed
\* to compute_halstead_and_mi on its own.
MaxCount == 2

\* Stand-in for std::usize::MAX, the iteration bound of the final drain: TLC's
\* largest integer, far above any depth the open-scope stack reaches.
usize_MAX == 2147483647

\* Capacity of the ArrayVec<[MetricsList; 7]> of ChosenMetrics.
ChosenCapacity == 7

\* Largest number of nodes of the syntax trees enumerated with every
\* combination of grammar fields and operand bytes.
MaxAttributed == 2

\* Largest number of calls of Iterator::next made on a ChosenMetrics before it
\* is handed to metrics().
MaxNext == 3

\* Largest number of nodes of the syntax trees metrics() is run on with a
\* selection on which next() was called.
MaxAdvanced == 3

\* ------------------------------------------------------------------ options

None == << >>

Some(x) == <<x>>

\* ------------------------------------------------------- the language adapter

\* Grammar kinds of the nodes: the root of a file, a function definition, a
\* closure (function expression, lambda), a return statement.
NodeKinds == {"Unit", "Function", "Closure", "Return"}

SpaceKind == {"Unknown", "Function", "Class", "Struct", "Trait", "Impl", "Unit", "Namespace"}

Langs == {"Python", "Javascript", "Rust", "Cpp"}

\* The languages with an Exit implementation of their own, and one of those
\* that keep the default, empty one.
ExitLangs == {"Python", "Mozjs", "Javascript", "Typescript", "Tsx", "Rust", "Cpp", "Java"}

\* Checker::is_func: a function definition.
is_func(k) == k = "Function"

\* Checker::is_closure: a closure.
is_closure(k) == k = "Closure"

\* Checker::is_func_space: the constructs that open a space without being a
\* plain function; closures are represented as Function-kind spaces.
is_func_space(k) == k \in {"Unit", "Function", "Closure"}

\* Getter::get_space_kind.
get_space_kind(k) ==
    CASE k = "Unit" -> "Unit"
      [] k \in {"Function", "Closure"} -> "Function"
      [] OTHER -> "Unknown"

\* Getter::get_func_space_name: a function has a name, the file's root a
\* placeholder, a closure none the adapter can resolve.
get_func_space_name(k) ==
    CASE k = "Function" -> Some("f")
      [] k = "Unit" -> Some("<anonymous>")
      [] OTHER -> None

\* ------------------------------------------------------------ syntax trees

RECURSIVE AncOrSelf(_, _)
AncOrSelf(par, i) == IF i = 0 THEN {} ELSE {i} \cup AncOrSelf(par, par[i])

\* Parent vectors of the pre-order numbered trees of n nodes: node j > 1
\* hangs below the previous node or one of its ancestors.
ParentVectors(n) ==
    {p \in [1..n -> 0..(n - 1)] :
        /\ p[1] = 0
        /\ \A j \in 2..n : p[j] \in AncOrSelf(p, j - 1)}

\* Labellings: a Unit is the whole file, so only a root is one.
Labellings(n) ==
    {k \in [1..n -> NodeKinds] : \A j \in 2..n : k[j] # "Unit"}

\* The grammar fields of a node that the Rust Exit hook looks up with
\* child_by_field_name: "return_type", "->" and "block", and, when the node
\* has a block, whether the block has a "return_expression".
NoFields == [return_type |-> FALSE, block |-> None, arrow |-> FALSE]

Blocks == {None} \cup {Some([return_expression |-> r]) : r \in BOOLEAN}

FieldsOf(k) ==
    CASE k = "Function" -> [return_type : BOOLEAN, block : Blocks, arrow : {FALSE}]
      [] k = "Closure" -> [return_type : {FALSE}, block : {None}, arrow : BOOLEAN]
      [] OTHER -> {NoFields}

\* The bytes of the operand token of a node: the name `f` of a function, the
\* parameter `a` of a closure, or other bytes of the source, which need not
\* be UTF-8.
DefaultText(k) ==
    CASE k = "Function" -> <<102>>
      [] k = "Closure" -> <<97>>
      [] OTHER -> << >>

TextsOf(k) ==
    IF k \in {"Function", "Closure"}
    THEN {DefaultText(k), <<98>>, <<97, 102>>, <<255>>}
    ELSE {<< >>}

\* The tree of the given kinds and parents, its functions named `f`, the
\* parameter of its closures `a`, no node with a field the Rust hook counts.
Plain(k, p) ==
    [kind |-> k,
     parent |-> p,
     fields |-> [i \in 1..Len(k) |-> NoFields],
     text |-> [i \in 1..Len(k) |-> DefaultText(k[i])]]

EnumeratedTrees ==
    UNION {{Plain(k, p) : k \in Labellings(n), p \in ParentVectors(n)} :
              n \in 1..MaxNodes}

\* Small trees with every combination of fields, and with every choice of
\* operand bytes.
AttributedTrees ==
    UNION {UNION {UNION {
        {[Plain(k, p) EXCEPT !.fields = f]
            : f \in {g \in [1..n -> UNION {FieldsOf(x) : x \in NodeKinds}] :
                        \A i \in 1..n : g[i] \in FieldsOf(k[i])}}
        \cup
        {[Plain(k, p) EXCEPT !.text = t]
            : t \in {u \in [1..n -> UNION {TextsOf(x) : x \in NodeKinds}] :
                        \A i \in 1..n : u[i] \in TextsOf(k[i])}}
      : p \in ParentVectors(n)} : k \in Labellings(n)} : n \in 1..MaxAttributed}

\* The sources of the tests of nexits.rs, reduced to the node kinds above:
\* every function definition, closure and return statement of the source in
\* document order below its nearest such ancestor, the functions named `f`
\* and the closures taking `a`; in Rust, the return type of a function as its
\* "return_type" field, the body of a function that returns as its "block"
\* field holding a "return_expression" (one exit in the counts the tests
\* expect), and the `-> T` of a closure as its "->" field.

\* The fields of a Rust function whose body returns.
Returning == [NoFields EXCEPT !.block = Some([return_expression |-> TRUE])]

\* A function with one return: python_single_function, c_single_function,
\* javascript_single_function.
single_function == Plain(<<"Unit", "Function", "Return">>, <<0, 1, 2>>)

\* fn f(a: bool, b: usize) { if a { return a; } }
rust_single_function ==
    [single_function EXCEPT !.fields = <<NoFields, Returning, NoFields>>]

\* bar = lambda a: True
python_single_lambda == Plain(<<"Unit", "Closure">>, <<0, 1>>)

\* Two closures with a return type, the second one holding `return i + 1`.
rust_closures ==
    [Plain(<<"Unit", "Closure", "Closure", "Return">>, <<0, 1, 1, 3>>) EXCEPT
        !.fields = <<NoFields, [NoFields EXCEPT !.arrow = TRUE],
                     [NoFields EXCEPT !.arrow = TRUE], NoFields>>]

\* A closure holding one return: cpp_single_lambda, javascript_single_closure.
single_closure == Plain(<<"Unit", "Closure", "Return">>, <<0, 1, 2>>)

\* Two sibling functions with one return each: python_functions, c_functions,
\* javascript_functions.
two_functions ==
    Plain(<<"Unit", "Function", "Return", "Function", "Return">>, <<0, 1, 2, 1, 4>>)

\* Two sibling functions without a return type whose bodies return, the
\* first by its last expression, the second by a return statement.
rust_functions ==
    [Plain(<<"Unit", "Function", "Function", "Return">>, <<0, 1, 1, 3>>) EXCEPT
        !.fields = <<NoFields, Returning, Returning, NoFields>>]

\* f holds foo with a return, a lambda holding a lambda, and a return.
python_nested_functions ==
    Plain(<<"Unit", "Function", "Function", "Return", "Closure", "Closure", "Return">>,
          <<0, 1, 2, 3, 2, 5, 2>>)

\* f -> i32 holds foo -> i32 with a return, two closures -> i32 without one,
\* and a return.
rust_nested_functions ==
    [Plain(<<"Unit", "Function", "Function", "Return", "Closure", "Closure", "Return">>,
           <<0, 1, 2, 3, 2, 2, 2>>) EXCEPT
        !.fields = <<NoFields,
                     [Returning EXCEPT !.return_type = TRUE],
                     [Returning EXCEPT !.return_type = TRUE],
                     NoFields,
                     [NoFields EXCEPT !.arrow = TRUE],
                     [NoFields EXCEPT !.arrow = TRUE],
                     NoFields>>]

\* f holds two lambdas with a return each, and a return.
cpp_nested_functions ==
    Plain(<<"Unit", "Function", "Closure", "Return", "Closure", "Return", "Return">>,
          <<0, 1, 2, 3, 2, 5, 2>>)

\* f holds foo with a return, two function expressions with a return each,
\* and a return.
javascript_nested_functions ==
    Plain(<<"Unit", "Function", "Function", "Return", "Closure", "Return",
            "Closure", "Return", "Return">>,
          <<0, 1, 2, 3, 2, 5, 2, 7, 2>>)

\* The bytes of foo.c and foo.cpp.
foo_c == <<102, 111, 111, 46, 99>>

foo_cpp == <<102, 111, 111, 46, 99, 112, 112>>

\* The bytes of foo.py, foo.js and foo.rs.
FileName(l) ==
    <<102, 111, 111, 46>> \o
    (CASE l = "Python" -> <<112, 121>>
       [] l = "Javascript" -> <<106, 115>>
       [] OTHER -> <<114, 115>>)

\* check_metrics!(source, file, parser, ..): each test with its parser and
\* file name.
TestCases ==
    { [tree |-> single_function, lang |-> "Python", path |-> FileName("Python")],
      [tree |-> rust_single_function, lang |-> "Rust", path |-> FileName("Rust")],
      [tree |-> single_function, lang |-> "Cpp", path |-> foo_c],
      [tree |-> single_function, lang |-> "Javascript", path |-> FileName("Javascript")],
      [tree |-> python_single_lambda, lang |-> "Python", path |-> FileName("Python")],
      [tree |-> rust_closures, lang |-> "Rust", path |-> FileName("Rust")],
      [tree |-> single_closure, lang |-> "Cpp", path |-> foo_cpp],
      [tree |-> single_closure, lang |-> "Javascript", path |-> FileName("Javascript")],
      [tree |-> two_functions, lang |-> "Python", path |-> FileName("Python")],
      [tree |-> rust_functions, lang |-> "Rust", path |-> FileName("Rust")],
      [tree |-> two_functions, lang |-> "Cpp", path |-> foo_c],
      [tree |-> two_functions, lang |-> "Javascript", path |-> FileName("Javascript")],
      [tree |-> python_nested_functions, lang |-> "Python", path |-> FileName("Python")],
      [tree |-> rust_nested_functions, lang |-> "Rust", path |-> FileName("Rust")],
      [tree |-> cpp_nested_functions, lang |-> "Cpp", path |-> foo_cpp],
      [tree |-> javascript_nested_functions, lang |-> "Javascript",
       path |-> FileName("Javascript")] }

TestTrees == {c.tree : c \in TestCases}

Trees == EnumeratedTrees \cup AttributedTrees \cup TestTrees

NodesOf(t) == 1..Len(t.kind)

\* What the hooks read of node i: its kind, its fields, its operand bytes.
NodeAt(t, i) == [kind |-> t.kind[i], fields |-> t.fields[i], text |-> t.text[i]]

ChildSet(t, n) == {j \in NodesOf(t) : t.parent[j] = n}

\* node.object().child_count()
child_count(t, n) == Cardinality(ChildSet(t, n))

RECURSIVE SortedSeq(_)
SortedSeq(S) ==
    IF S = {} THEN << >>
    ELSE LET m == CHOOSE x \in S : \A y \in S : x <= y
         IN <<m>> \o SortedSeq(S \ {m})

\* The children of n, left to right (cursor.goto_first_child /
\* goto_next_sibling).
Children(t, n) == SortedSeq(ChildSet(t, n))

Descendants(t, n) == {j \in NodesOf(t) : n \in AncOrSelf(t.parent, j)}

\* Every node starts on a row of its own and ends on the row of its last
\* descendant (0-based rows, as tree-sitter reports them).
start_row(t, n) == n - 1

end_row(t, n) == (CHOOSE m \in Descendants(t, n) : \A j \in Descendants(t, n) : j <= m) - 1

RECURSIVE Reverse(_)
Reverse(s) == IF s = << >> THEN << >> ELSE Reverse(Tail(s)) \o <<Head(s)>>

Front(s) == SubSeq(s, 1, Len(s) - 1)

Last(s) == s[Len(s)]

RECURSIVE SumSeq(_)
SumSeq(s) == IF s = << >> THEN 0 ELSE Head(s) + SumSeq(Tail(s))


\* ------------------------------------------------- nexits.rs: exit points

Stats_default == [fn_nexits |-> 0, closure_nexits |-> 0, total_space_functions |-> 1]

\* Stats::merge with the closure counter dropped.
Stats_merge_fn_only(self, other) ==
    [self EXCEPT !.fn_nexits = self.fn_nexits + other.fn_nexits]

\* Stats::merge taking over the other value's number of functions as well.
Stats_merge_with_functions(self, other) ==
    [self EXCEPT !.fn_nexits = self.fn_nexits + other.fn_nexits,
                 !.closure_nexits = self.closure_nexits + other.closure_nexits,
                 !.total_space_functions = other.total_space_functions]

Stats_merge(self, other) ==
    [self EXCEPT !.fn_nexits = self.fn_nexits + other.fn_nexits,
                 !.closure_nexits = self.closure_nexits + other.closure_nexits]

fn_exits(self) == self.fn_nexits

closure_exits(self) == self.closure_nexits

total(self) == fn_exits(self) + closure_exits(self)

RECURSIVE Gcd(_, _)
Gcd(a, b) == IF b = 0 THEN a ELSE Gcd(b, a % b)

\* An f64 quotient of two counters: the reduced fraction, or what IEEE 754
\* division by zero gives (0/0 is NaN, n/0 is +inf).
NaN == [cls |-> "NaN", num |-> 0, den |-> 0]

Inf == [cls |-> "inf", num |-> 0, den |-> 0]

Finite(n, d) == [cls |-> "finite", num |-> n, den |-> d]

f64_div(n, d) ==
    IF d = 0 THEN (IF n = 0 THEN NaN ELSE Inf)
    ELSE LET g == Gcd(n, d) IN Finite(n \div g, d \div g)

nexits_average(self) == f64_div(total(self), self.total_space_functions)

Stats_finalize(self, total_space_functions) ==
    [self EXCEPT !.total_space_functions = total_space_functions]

\* impl Exit for PythonCode / JavascriptCode, MozjsCode, TypescriptCode,
\* TsxCode, CppCode / RustCode / the default no-op, on a node of grammar
\* kind node.kind with the fields node.fields.
Exit_compute(l, node, stats) ==
    LET k == node.kind
        f == node.fields
    IN
    CASE l = "Python" ->
           [stats EXCEPT
              !.fn_nexits = @ + (IF k = "Return" THEN 1 ELSE 0),
              !.closure_nexits = @ + (IF k = "Closure" THEN 1 ELSE 0)]
      [] l \in {"Mozjs", "Javascript", "Typescript", "Tsx", "Cpp"} ->
           [stats EXCEPT !.fn_nexits = @ + (IF k = "Return" THEN 1 ELSE 0)]
      [] l = "Rust" ->
           [stats EXCEPT
              !.fn_nexits =
                  @ + (IF is_func(k) /\ f.block # None /\ f.block[1].return_expression
                       THEN 1 ELSE 0)
                    + (IF is_func(k) /\ f.return_type THEN 1 ELSE 0),
              !.closure_nexits = @ + (IF is_closure(k) /\ f.arrow THEN 1 ELSE 0)]
      [] OTHER -> stats

\* ------------------------------------------------------- Halstead token maps

\* Operator keys are grammar ids, operand keys the bytes of the token.
ReturnId == 1

EmptyMap == [x \in {} |-> 0]

MapCount(m, x) == IF x \in DOMAIN m THEN m[x] ELSE 0

MapAdd(m, k) == [x \in (DOMAIN m) \cup {k} |-> MapCount(m, x) + (IF x = k THEN 1 ELSE 0)]

MapMerge(a, b) == [x \in (DOMAIN a) \cup (DOMAIN b) |-> MapCount(a, x) + MapCount(b, x)]

RECURSIVE MapTotal(_)
MapTotal(m) ==
    IF DOMAIN m = {} THEN 0
    ELSE LET x == CHOOSE y \in DOMAIN m : TRUE
         IN m[x] + MapTotal([y \in (DOMAIN m) \ {x} |-> m[y]])

HalsteadMaps_new == [operators |-> EmptyMap, operands |-> EmptyMap]

HalsteadMaps_merge(self, other) ==
    [operators |-> MapMerge(self.operators, other.operators),
     operands |-> MapMerge(self.operands, other.operands)]

\* Halstead::compute: a return statement is the operator `return`, a
\* function definition carries its name as operand, a closure its
\* parameter; the operand's key is the bytes of the token in the source.
Halstead_compute(node, maps) ==
    CASE node.kind = "Return" -> [maps EXCEPT !.operators = MapAdd(@, ReturnId)]
      [] node.kind \in {"Function", "Closure"} ->
           [maps EXCEPT !.operands = MapAdd(@, node.text)]
      [] OTHER -> maps

Halstead_default == [u_operators |-> 0, operators |-> 0, u_operands |-> 0, operands |-> 0]

\* HalsteadMaps::finalize: the derived token Stats of a map.
HalsteadMaps_finalize(maps) ==
    [u_operators |-> Cardinality(DOMAIN maps.operators),
     operators |-> MapTotal(maps.operators),
     u_operands |-> Cardinality(DOMAIN maps.operands),
     operands |-> MapTotal(maps.operands)]

\* halstead::Stats::merge: the token Stats are not merged, their maps are.
Halstead_merge(self, other) == self

\* Getter::get_operator_id_as_str.
get_operator_id_as_str(id) == IF id = ReturnId THEN "return" ELSE "unknown"

\* The number of bytes of the well-formed UTF-8 sequence at the head of
\* bytes, 0 when there is none.
Utf8Width(bytes) ==
    LET n == Len(bytes)
        Cont(i) == i <= n /\ bytes[i] \in 128..191
        b1 == bytes[1]
    IN IF n = 0 THEN 0
       ELSE IF b1 <= 127 THEN 1
       ELSE IF b1 \in 194..223 THEN (IF Cont(2) THEN 2 ELSE 0)
       ELSE IF b1 = 224 THEN (IF n >= 2 /\ bytes[2] \in 160..191 /\ Cont(3) THEN 3 ELSE 0)
       ELSE IF b1 \in (225..236) \cup (238..239) THEN (IF Cont(2) /\ Cont(3) THEN 3 ELSE 0)
       ELSE IF b1 = 237 THEN (IF n >= 2 /\ bytes[2] \in 128..159 /\ Cont(3) THEN 3 ELSE 0)
       ELSE IF b1 = 240
            THEN (IF n >= 2 /\ bytes[2] \in 144..191 /\ Cont(3) /\ Cont(4) THEN 4 ELSE 0)
       ELSE IF b1 \in 241..243 THEN (IF Cont(2) /\ Cont(3) /\ Cont(4) THEN 4 ELSE 0)
       ELSE IF b1 = 244
            THEN (IF n >= 2 /\ bytes[2] \in 128..143 /\ Cont(3) /\ Cont(4) THEN 4 ELSE 0)
       ELSE 0

\* The scalar value a well-formed sequence of w bytes encodes.
Utf8Scalar(bytes, w) ==
    CASE w = 1 -> bytes[1]
      [] w = 2 -> (bytes[1] - 192) * 64 + (bytes[2] - 128)
      [] w = 3 -> (bytes[1] - 224) * 4096 + (bytes[2] - 128) * 64 + (bytes[3] - 128)
      [] w = 4 -> (bytes[1] - 240) * 262144 + (bytes[2] - 128) * 4096
                    + (bytes[3] - 128) * 64 + (bytes[4] - 128)

\* The characters of a byte string: Some(scalar values) when the bytes are
\* UTF-8, None when they are not.
RECURSIVE Utf8Chars(_)
Utf8Chars(bytes) ==
    IF bytes = << >> THEN Some(<< >>)
    ELSE CHOOSE chars \in
           {IF w = 0 THEN None
            ELSE CHOOSE all \in
                   {IF rest = None THEN None
                    ELSE Some(<<Utf8Scalar(bytes, w)>> \o rest[1])
                      : rest \in {Utf8Chars(tail) :
                                    tail \in {SubSeq(bytes, w + 1, Len(bytes))}}} : TRUE
              : w \in {Utf8Width(bytes)}} : TRUE

\* The characters a string of this module can hold, by scalar value: the
\* printable ASCII characters but the double quote, the backslash and the
\* backquote.
Spellable == ((32..126) \ {34, 92, 96})

CharOf(c) ==
    IF c <= 33 THEN SubSeq(" !", c - 31, c - 31)
    ELSE IF c <= 91
         THEN SubSeq("#$%&'()*+,-./0123456789:;<=>?@ABCDEFGHIJKLMNOPQRSTUVWXYZ[", c - 34, c - 34)
    ELSE IF c <= 95 THEN SubSeq("]^_", c - 92, c - 92)
    ELSE SubSeq("abcdefghijklmnopqrstuvwxyz{|}~", c - 96, c - 96)

RECURSIVE StringOf(_)
StringOf(chars) ==
    IF chars = << >> THEN "" ELSE CharOf(Head(chars)) \o StringOf(Tail(chars))

\* std::str::from_utf8(k): Ok(the text the bytes encode) or Err.  The text is
\* held as a string when all its characters are Spellable, as the sequence of
\* its scalar values when not.
from_utf8(bytes) ==
    CHOOSE text \in
      {IF chars = None THEN [ok |-> FALSE]
       ELSE [ok |-> TRUE,
             value |-> IF \A i \in 1..Len(chars[1]) : chars[1][i] \in Spellable
                       THEN StringOf(chars[1])
                       ELSE chars[1]]
         : chars \in {Utf8Chars(bytes)}} : TRUE

\* Path::to_str: Some(the path as text) when its bytes are UTF-8, None when
\* they are not.
to_str(bytes) ==
    CHOOSE name \in
      {IF text.ok THEN Some(text.value) ELSE None : text \in {from_utf8(bytes)}} : TRUE

\* The paths a caller passes for a file of language l: its name, and a name
\* whose first byte no UTF-8 text holds.
Paths(l) == {FileName(l), <<255>> \o Tail(Tail(Tail(FileName(l))))}

\* operators.keys().map(get_operator_id_as_str).collect(): the spellings of
\* a map's keys, in the map's iteration order.
OperatorSpellings(m) ==
    LET keys == SortedSeq(DOMAIN m)
    IN [i \in 1..Len(keys) |-> get_operator_id_as_str(keys[i])]

\* Byte strings ordered by their first difference, a prefix first.
RECURSIVE BytesBefore(_, _)
BytesBefore(a, b) ==
    IF a = << >> THEN b # << >>
    ELSE IF b = << >> THEN FALSE
    ELSE IF Head(a) # Head(b) THEN Head(a) < Head(b)
    ELSE BytesBefore(Tail(a), Tail(b))

RECURSIVE SortedKeys(_)
SortedKeys(S) ==
    IF S = {} THEN << >>
    ELSE CHOOSE keys \in
           {<<least>> \o SortedKeys(S \ {least})
              : least \in {a \in S : \A b \in S \ {a} : BytesBefore(a, b)}} : TRUE

\* operands.keys().map(|k| from_utf8(k).unwrap().to_string()).collect(): None
\* when an unwrap panics, Some(the spellings in the map's iteration order)
\* when none does.
OperandSpellings(m) ==
    CHOOSE operands \in
      {IF \E i \in 1..Len(keys) : ~from_utf8(keys[i]).ok THEN None
       ELSE Some([i \in 1..Len(keys) |-> from_utf8(keys[i]).value])
         : keys \in {SortedKeys(DOMAIN m)}} : TRUE

\* ----------------------------------------- the other metrics of CodeMetrics

\* Loc::compute: a return statement is one logical line.
Loc_compute(k, loc) == IF k = "Return" THEN loc + 1 ELSE loc

Loc_merge(self, other) == self + other

\* Cyclomatic::compute: none of NodeKinds introduces a decision.
Cyclomatic_compute(k, cyclomatic) == cyclomatic

Cyclomatic_merge(self, other) == self + other

\* Mi::compute: the score is a function of the three metrics it is handed,
\* kept unevaluated.
Mi_compute(loc, cyclomatic, halstead) ==
    [loc |-> loc, cyclomatic |-> cyclomatic, halstead |-> halstead]

Mi_default == Mi_compute(0, 0, Halstead_default)

\* mi::Stats::merge: the score is never merged.
Mi_merge(self, other) == self

\* --------------------------------------------------- spaces.rs: CodeMetrics

CodeMetrics_default ==
    [cyclomatic |-> 0,
     halstead |-> Halstead_default,
     loc |-> 0,
     mi |-> Mi_default,
     nexits |-> Stats_default]

CodeMetrics_merge(self, other) ==
    [self EXCEPT
       !.cyclomatic = Cyclomatic_merge(@, other.cyclomatic),
       !.halstead = Halstead_merge(@, other.halstead),
       !.loc = Loc_merge(@, other.loc),
       !.mi = Mi_merge(@, other.mi),
       !.nexits = Stats_merge(@, other.nexits)]

\* ------------------------------------------------------ FuncSpace and Ops

\* FuncSpace::new with the Unit arm always taking (start_row + 1, end_row).
FuncSpace_new_no_sentinel(n, k, kind, children, srow, erow) ==
    LET span == IF kind = "Unit" THEN <<srow + 1, erow>> ELSE <<srow + 1, erow + 1>>
    IN [node |-> n,
        finalized |-> 0,
        name |-> get_func_space_name(k),
        spaces |-> << >>,
        metrics |-> CodeMetrics_default,
        kind |-> kind,
        start_line |-> span[1],
        end_line |-> span[2]]

\* FuncSpace::new for node n of grammar kind k: `node` is the model's handle
\* on the node that opened the space and `finalized` counts how often the
\* space's token Stats were written from its maps; the other fields are the
\* struct's.
FuncSpace_new(n, k, kind, children, srow, erow) ==
    LET span == IF kind = "Unit"
                THEN (IF children = 0 THEN <<0, 0>> ELSE <<srow + 1, erow>>)
                ELSE <<srow + 1, erow + 1>>
    IN [node |-> n,
        finalized |-> 0,
        name |-> get_func_space_name(k),
        spaces |-> << >>,
        metrics |-> CodeMetrics_default,
        kind |-> kind,
        start_line |-> span[1],
        end_line |-> span[2]]

\* Ops::new with a Unit that has children ending on end_row + 1 like every
\* other kind.
Ops_new_inclusive_unit(n, k, kind, children, srow, erow) ==
    LET span == IF kind = "Unit" /\ children = 0 THEN <<0, 0>> ELSE <<srow + 1, erow + 1>>
    IN [node |-> n,
        name |-> get_func_space_name(k),
        spaces |-> << >>,
        kind |-> kind,
        start_line |-> span[1],
        end_line |-> span[2],
        operators |-> << >>,
        operands |-> << >>]

Ops_new(n, k, kind, children, srow, erow) ==
    LET span == IF kind = "Unit"
                THEN (IF children = 0 THEN <<0, 0>> ELSE <<srow + 1, erow>>)
                ELSE <<srow + 1, erow + 1>>
    IN [node |-> n,
        name |-> get_func_space_name(k),
        spaces |-> << >>,
        kind |-> kind,
        start_line |-> span[1],
        end_line |-> span[2],
        operators |-> << >>,
        operands |-> << >>]

\* Ops::merge_ops extending the operands alone.
Ops_merge_ops_operands_only(self, other) ==
    [self EXCEPT !.operands = @ \o other.operands]

Ops_merge_ops(self, other) ==
    [self EXCEPT !.operands = @ \o other.operands,
                 !.operators = @ \o other.operators]

\* --------------------------------------------------------- ChosenMetrics

MetricsList == {"Nargs", "Nexits", "Cyclomatic", "Halstead", "Loc", "Mi", "Nom"}

Contains(s, x) == \E i \in 1..Len(s) : s[i] = x

\* ArrayVec::is_full
ArrayVec_is_full(chosen_metrics) == Len(chosen_metrics) = ChosenCapacity

\* ChosenMetrics::is_full
is_full(self) == ArrayVec_is_full(self.chosen_metrics)

\* ChosenMetrics::is_metric
is_metric(self, metric) == Contains(self.chosen_metrics, metric)

\* Iterator::next of ChosenMetrics: the item it yields and the iterator after
\* the call.
ChosenMetrics_next(self) ==
    IF self.index < Len(self.chosen_metrics)
    THEN [item |-> Some(self.chosen_metrics[self.index + 1]),
          self |-> [self EXCEPT !.index = @ + 1]]
    ELSE [item |-> None, self |-> self]

RECURSIVE PushChosen(_, _)
PushChosen(chosen_metrics, metrics_list) ==
    IF metrics_list = << >> THEN chosen_metrics
    ELSE LET metric == Head(metrics_list)
         IN PushChosen(
              IF ~(ArrayVec_is_full(chosen_metrics) \/ Contains(chosen_metrics, metric))
              THEN Append(chosen_metrics, metric)
              ELSE chosen_metrics,
              Tail(metrics_list))

\* ChosenMetrics::new without the metrics the maintainability score implies.
ChosenMetrics_new_no_implied(metrics_list) ==
    [chosen_metrics |-> PushChosen(<< >>, metrics_list), index |-> 0]

\* ChosenMetrics::new
ChosenMetrics_new(metrics_list) ==
    [chosen_metrics |->
        PushChosen(
          IF Contains(metrics_list, "Mi")
          THEN <<"Cyclomatic", "Loc", "Halstead", "Mi">>
          ELSE << >>,
          metrics_list),
     index |-> 0]

\* ------------------------------------------------- spaces.rs: the hooks

compute_all_metrics(l, node, state, func_space, unit) ==
    [state EXCEPT
       !.space.metrics.cyclomatic = Cyclomatic_compute(node.kind, @),
       !.halstead_maps = Halstead_compute(node, @),
       !.space.metrics.loc = Loc_compute(node.kind, @),
       !.space.metrics.nexits = Exit_compute(l, node, @)]

\* One arm of the match in compute_certain_metrics.
compute_metric(metric, l, node, state) ==
    CASE metric = "Cyclomatic" ->
           [state EXCEPT !.space.metrics.cyclomatic = Cyclomatic_compute(node.kind, @)]
      [] metric = "Halstead" ->
           [state EXCEPT !.halstead_maps = Halstead_compute(node, @)]
      [] metric = "Loc" ->
           [state EXCEPT !.space.metrics.loc = Loc_compute(node.kind, @)]
      [] metric = "Nexits" ->
           [state EXCEPT !.space.metrics.nexits = Exit_compute(l, node, @)]
      [] OTHER -> state

\* compute_certain_metrics running the hook of every chosen metric twice.
RECURSIVE compute_certain_metrics_twice(_, _, _, _, _, _)
compute_certain_metrics_twice(l, node, state, func_space, unit, chosen_metrics) ==
    CHOOSE after \in
      {IF step.item = None THEN state
       ELSE CHOOSE rest \in
              {compute_certain_metrics_twice(l, node, next, func_space, unit, step.self)
                 : next \in {compute_metric(step.item[1], l, node,
                                            compute_metric(step.item[1], l, node, state))}}
              : TRUE
         : step \in {ChosenMetrics_next(chosen_metrics)}} : TRUE

\* compute_certain_metrics: `for metric in chosen_metrics` takes the clone it
\* was handed from where its index stands.
RECURSIVE compute_certain_metrics(_, _, _, _, _, _)
compute_certain_metrics(l, node, state, func_space, unit, chosen_metrics) ==
    CHOOSE after \in
      {IF step.item = None THEN state
       ELSE CHOOSE rest \in
              {compute_certain_metrics(l, node, next, func_space, unit, step.self)
                 : next \in {compute_metric(step.item[1], l, node, state)}} : TRUE
         : step \in {ChosenMetrics_next(chosen_metrics)}} : TRUE

\* chosen_metrics.map_or(true, |m| m.is_metric(metric))
is_metric_or_true(chosen, metric) == chosen = None \/ is_metric(chosen[1], metric)

\* chosen_metrics.map_or(true, |m| m.is_full())
is_full_or_true(chosen) == chosen = None \/ is_full(chosen[1])

\* compute_halstead_and_mi deriving both Stats whatever the selection.
compute_halstead_and_mi_always(state, chosen) ==
    LET s1 == [state EXCEPT !.space.metrics.halstead =
                               HalsteadMaps_finalize(state.halstead_maps),
                            !.space.finalized = @ + 1]
    IN [s1 EXCEPT !.space.metrics.mi =
                     Mi_compute(s1.space.metrics.loc,
                                s1.space.metrics.cyclomatic,
                                s1.space.metrics.halstead)]

\* compute_halstead_and_mi adding the maps' counts to the token Stats in place
\* of overwriting them.
compute_halstead_and_mi_accumulate(state, chosen) ==
    LET fresh == HalsteadMaps_finalize(state.halstead_maps)
        s1 == IF is_metric_or_true(chosen, "Mi") \/ is_metric_or_true(chosen, "Halstead")
              THEN [state EXCEPT
                      !.space.metrics.halstead =
                          [u_operators |-> @.u_operators + fresh.u_operators,
                           operators |-> @.operators + fresh.operators,
                           u_operands |-> @.u_operands + fresh.u_operands,
                           operands |-> @.operands + fresh.operands],
                      !.space.finalized = @ + 1]
              ELSE state
    IN IF is_metric_or_true(chosen, "Mi")
       THEN [s1 EXCEPT !.space.metrics.mi =
                          Mi_compute(s1.space.metrics.loc,
                                     s1.space.metrics.cyclomatic,
                                     s1.space.metrics.halstead)]
       ELSE s1

compute_halstead_and_mi(state, chosen) ==
    LET s1 == IF is_metric_or_true(chosen, "Mi") \/ is_metric_or_true(chosen, "Halstead")
              THEN [state EXCEPT !.space.metrics.halstead =
                                    HalsteadMaps_finalize(state.halstead_maps),
                                 !.space.finalized = @ + 1]
              ELSE state
    IN IF is_metric_or_true(chosen, "Mi")
       THEN [s1 EXCEPT !.space.metrics.mi =
                          Mi_compute(s1.space.metrics.loc,
                                     s1.space.metrics.cyclomatic,
                                     s1.space.metrics.halstead)]
       ELSE s1

\* One pass of the loop of finalize (lines 237-250): the innermost open scope is
\* derived, popped, and merged into its parent, which is derived in turn.
finalize_close(state_stack, chosen) ==
    LET rest == Front(state_stack)
        merge_into_parent(state) ==
            LET merged_maps == [Last(rest) EXCEPT
                                  !.halstead_maps = HalsteadMaps_merge(@, state.halstead_maps)]
                derived == compute_halstead_and_mi(merged_maps, chosen)
                last_state == [derived EXCEPT
                                 !.space.metrics = CodeMetrics_merge(@, state.space.metrics),
                                 !.space.spaces = Append(@, state.space)]
            IN Front(rest) \o <<last_state>>
    IN CHOOSE next \in {merge_into_parent(state) :
                          state \in {compute_halstead_and_mi(Last(state_stack), chosen)}} : TRUE

\* finalize with a closed scope put in front of its parent's children.
RECURSIVE finalize_prepend(_, _, _)
finalize_prepend(state_stack, diff_level, chosen) ==
    IF diff_level = 0 THEN [ok |-> TRUE, stack |-> state_stack]
    ELSE IF Len(state_stack) <= 1
    THEN IF state_stack = << >>
         THEN [ok |-> FALSE, stack |-> state_stack]
         ELSE [ok |-> TRUE,
               stack |-> <<compute_halstead_and_mi(state_stack[1], chosen)>>]
    ELSE LET state == compute_halstead_and_mi(Last(state_stack), chosen)
             rest == Front(state_stack)
             merged == [Last(rest) EXCEPT
                          !.halstead_maps = HalsteadMaps_merge(@, state.halstead_maps)]
             derived == compute_halstead_and_mi(merged, chosen)
             last_state == [derived EXCEPT
                              !.space.metrics = CodeMetrics_merge(@, state.space.metrics),
                              !.space.spaces = <<state.space>> \o @]
         IN finalize_prepend(Front(rest) \o <<last_state>>, diff_level - 1, chosen)

\* finalize merging a closed scope into its parent without appending it to
\* the parent's children.
RECURSIVE finalize_drop_child(_, _, _)
finalize_drop_child(state_stack, diff_level, chosen) ==
    IF diff_level = 0 THEN [ok |-> TRUE, stack |-> state_stack]
    ELSE IF Len(state_stack) <= 1
    THEN IF state_stack = << >>
         THEN [ok |-> FALSE, stack |-> state_stack]
         ELSE [ok |-> TRUE,
               stack |-> <<compute_halstead_and_mi(state_stack[1], chosen)>>]
    ELSE LET state == compute_halstead_and_mi(Last(state_stack), chosen)
             rest == Front(state_stack)
             merged == [Last(rest) EXCEPT
                          !.halstead_maps = HalsteadMaps_merge(@, state.halstead_maps)]
             derived == compute_halstead_and_mi(merged, chosen)
             last_state == [derived EXCEPT
                              !.space.metrics = CodeMetrics_merge(@, state.space.metrics)]
         IN finalize_drop_child(Front(rest) \o <<last_state>>, diff_level - 1, chosen)

\* finalize closing one scope however many levels were left.
finalize_once(state_stack, diff_level, chosen) ==
    IF diff_level = 0 THEN [ok |-> TRUE, stack |-> state_stack]
    ELSE IF Len(state_stack) <= 1
    THEN IF state_stack = << >>
         THEN [ok |-> FALSE, stack |-> state_stack]
         ELSE [ok |-> TRUE,
               stack |-> <<compute_halstead_and_mi(state_stack[1], chosen)>>]
    ELSE LET state == compute_halstead_and_mi(Last(state_stack), chosen)
             rest == Front(state_stack)
             merged == [Last(rest) EXCEPT
                          !.halstead_maps = HalsteadMaps_merge(@, state.halstead_maps)]
             derived == compute_halstead_and_mi(merged, chosen)
             last_state == [derived EXCEPT
                              !.space.metrics = CodeMetrics_merge(@, state.space.metrics),
                              !.space.spaces = Append(@, state.space)]
         IN [ok |-> TRUE, stack |-> Front(rest) \o <<last_state>>]

\* finalize closing no scope at all.
finalize_keep_open(state_stack, diff_level, chosen) ==
    [ok |-> TRUE, stack |-> state_stack]

\* finalize without the derivation of the popped scope (line 241).
RECURSIVE finalize_no_derive(_, _, _)
finalize_no_derive(state_stack, diff_level, chosen) ==
    IF diff_level = 0 THEN [ok |-> TRUE, stack |-> state_stack]
    ELSE IF Len(state_stack) <= 1
    THEN IF state_stack = << >>
         THEN [ok |-> FALSE, stack |-> state_stack]
         ELSE [ok |-> TRUE,
               stack |-> <<compute_halstead_and_mi(state_stack[1], chosen)>>]
    ELSE LET state == Last(state_stack)
             rest == Front(state_stack)
             merged == [Last(rest) EXCEPT
                          !.halstead_maps = HalsteadMaps_merge(@, state.halstead_maps)]
             derived == compute_halstead_and_mi(merged, chosen)
             last_state == [derived EXCEPT
                              !.space.metrics = CodeMetrics_merge(@, state.space.metrics),
                              !.space.spaces = Append(@, state.space)]
         IN finalize_no_derive(Front(rest) \o <<last_state>>, diff_level - 1, chosen)

\* finalize handing the closed scope's children over to its parent, beside it.
finalize_close_flatten(state_stack, chosen) ==
    LET rest == Front(state_stack)
        merge_into_parent(state) ==
            LET merged_maps == [Last(rest) EXCEPT
                                  !.halstead_maps = HalsteadMaps_merge(@, state.halstead_maps)]
                derived == compute_halstead_and_mi(merged_maps, chosen)
                last_state == [derived EXCEPT
                                 !.space.metrics = CodeMetrics_merge(@, state.space.metrics),
                                 !.space.spaces = (@ \o state.space.spaces)
                                                  \o <<[state.space EXCEPT !.spaces = << >>]>>]
            IN Front(rest) \o <<last_state>>
    IN CHOOSE next \in {merge_into_parent(state) :
                          state \in {compute_halstead_and_mi(Last(state_stack), chosen)}} : TRUE

RECURSIVE finalize_flatten(_, _, _)
finalize_flatten(state_stack, diff_level, chosen) ==
    IF diff_level = 0 THEN [ok |-> TRUE, stack |-> state_stack]
    ELSE IF Len(state_stack) <= 1
    THEN IF state_stack = << >>
         THEN [ok |-> FALSE, stack |-> state_stack]
         ELSE [ok |-> TRUE,
               stack |-> <<compute_halstead_and_mi(state_stack[1], chosen)>>]
    ELSE CHOOSE closed \in {finalize_flatten(next, diff_level - 1, chosen) :
                               next \in {finalize_close_flatten(state_stack, chosen)}} : TRUE

\* finalize popping the scope it finds alone on the stack.
RECURSIVE finalize_pop_first(_, _, _)
finalize_pop_first(state_stack, diff_level, chosen) ==
    IF diff_level = 0 THEN [ok |-> TRUE, stack |-> state_stack]
    ELSE IF Len(state_stack) <= 1
    THEN IF state_stack = << >>
         THEN [ok |-> FALSE, stack |-> state_stack]
         ELSE [ok |-> TRUE, stack |-> << >>]
    ELSE CHOOSE closed \in {finalize_pop_first(next, diff_level - 1, chosen) :
                               next \in {finalize_close(state_stack, chosen)}} : TRUE

\* finalize without the merge of the closed scope's maps into its parent's
\* (line 244).
finalize_close_no_map_merge(state_stack, chosen) ==
    LET rest == Front(state_stack)
        merge_into_parent(state) ==
            LET derived == compute_halstead_and_mi(Last(rest), chosen)
                last_state == [derived EXCEPT
                                 !.space.metrics = CodeMetrics_merge(@, state.space.metrics),
                                 !.space.spaces = Append(@, state.space)]
            IN Front(rest) \o <<last_state>>
    IN CHOOSE next \in {merge_into_parent(state) :
                          state \in {compute_halstead_and_mi(Last(state_stack), chosen)}} : TRUE

RECURSIVE finalize_no_map_merge(_, _, _)
finalize_no_map_merge(state_stack, diff_level, chosen) ==
    IF diff_level = 0 THEN [ok |-> TRUE, stack |-> state_stack]
    ELSE IF Len(state_stack) <= 1
    THEN IF state_stack = << >>
         THEN [ok |-> FALSE, stack |-> state_stack]
         ELSE [ok |-> TRUE,
               stack |-> <<compute_halstead_and_mi(state_stack[1], chosen)>>]
    ELSE CHOOSE closed \in {finalize_no_map_merge(next, diff_level - 1, chosen) :
                               next \in {finalize_close_no_map_merge(state_stack, chosen)}} : TRUE

\* spaces.rs finalize: ok is FALSE when last_mut().unwrap() panics on an
\* empty stack, otherwise stack is the open-scope stack it leaves.
RECURSIVE finalize(_, _, _)
finalize(state_stack, diff_level, chosen) ==
    IF diff_level = 0 THEN [ok |-> TRUE, stack |-> state_stack]
    ELSE IF Len(state_stack) <= 1
    THEN IF state_stack = << >>
         THEN [ok |-> FALSE, stack |-> state_stack]
         ELSE [ok |-> TRUE,
               stack |-> <<compute_halstead_and_mi(state_stack[1], chosen)>>]
    ELSE CHOOSE closed \in {finalize(next, diff_level - 1, chosen) :
                               next \in {finalize_close(state_stack, chosen)}} : TRUE

\* ops.rs finalize with a closed scope put in front of its parent's children.
RECURSIVE ops_finalize_prepend(_, _)
ops_finalize_prepend(state_stack, diff_level) ==
    IF diff_level = 0 \/ Len(state_stack) <= 1 THEN state_stack
    ELSE LET state == Last(state_stack)
             rest == Front(state_stack)
             merged == [Last(rest) EXCEPT
                          !.halstead_maps = HalsteadMaps_merge(@, state.halstead_maps)]
             last_state == [merged EXCEPT
                              !.ops = [Ops_merge_ops(@, state.ops) EXCEPT
                                         !.spaces = <<state.ops>> \o @]]
         IN ops_finalize_prepend(Front(rest) \o <<last_state>>, diff_level - 1)

\* ops.rs finalize: it breaks on a stack of at most one state.
RECURSIVE ops_finalize(_, _)
ops_finalize(state_stack, diff_level) ==
    IF diff_level = 0 \/ Len(state_stack) <= 1 THEN state_stack
    ELSE LET state == Last(state_stack)
             rest == Front(state_stack)
             merged == [Last(rest) EXCEPT
                          !.halstead_maps = HalsteadMaps_merge(@, state.halstead_maps)]
             last_state == [merged EXCEPT
                              !.ops = [Ops_merge_ops(@, state.ops) EXCEPT
                                         !.spaces = Append(@, state.ops)]]
         IN ops_finalize(Front(rest) \o <<last_state>>, diff_level - 1)

\* metrics(), lines 353-356, without the renaming of the root.
metrics_return_keep_name(state_stack, path) ==
    IF state_stack = << >> THEN None ELSE Some(Last(state_stack).space)

\* metrics(), lines 353-356: state_stack.pop().map(..), the root named
\* from the path.
metrics_return(state_stack, path) ==
    IF state_stack = << >> THEN None
    ELSE Some([Last(state_stack).space EXCEPT !.name = path])

\* operands_and_operators(), lines 186-189.
ops_return(state_stack, path) ==
    IF state_stack = << >> THEN None
    ELSE Some([Last(state_stack).ops EXCEPT !.name = path])

\* ------------------------------------------------------------------ state

VARIABLES
    tree,         \* the syntax tree the parser holds
    lang,         \* the language of the parser (T: ParserTrait)
    path,         \* the bytes of the path the caller passes
    call,         \* the function running: "metrics" or "operands_and_operators"
    chosen,       \* chosen_metrics: Option<&ChosenMetrics>
    stack,        \* the work stack of (node, level)
    state_stack,  \* the stack of open scopes
    last_level,
    pc,           \* "loop", "drained", "done", or "panicked"
    result,       \* Some(the Option returned) once pc = "done"
    dispatched,   \* history: dispatched[n] is the node that opened the scope
                  \* node n was dispatched to, 0 before n's visit or with no scope open
    stats,        \* an exit-point Stats value handled on its own
    probe,        \* the node handed to FuncSpace::new / Ops::new on its own
    made,         \* Some of the FuncSpace and the Ops made from probe
    previous,     \* Some(the Option metrics() returned) once the caller goes on
                  \* to operands_and_operators() on the same parser
    metrics_list, \* a list of metrics handed to ChosenMetrics::new on its own
    expansions,   \* the lists ChosenMetrics::new built from it, then from its result
    visited,      \* history: the nodes popped from the work stack, in order
    merged,       \* Some of the receiver and the argument of the Stats::merge
                  \* that was the last operation on stats
    scope,        \* an open-scope State handed to compute_halstead_and_mi on its own
    derivations   \* the States after one and after two derivations

vars ==
    <<tree, lang, path, call, chosen, stack, state_stack, last_level, pc, result,
      dispatched, stats, merged, probe, made, previous, metrics_list, expansions,
      scope, derivations, visited, merged>>

traversal ==
    <<tree, lang, path, call, chosen, stack, state_stack, last_level, pc, result,
      dispatched, previous, visited>>

\* The variables of the functions handled on their own.
standalone == <<metrics_list, expansions, scope, derivations>>

\* The selections a caller of metrics() passes: none, or ChosenMetrics::new
\* of a list.
SelectionLists ==
    {<<"Mi">>, <<"Nexits">>, <<"Halstead">>,
     <<"Nargs", "Nexits", "Cyclomatic", "Halstead", "Loc", "Mi", "Nom">>}

Selections == {None} \cup {Some(ChosenMetrics_new(m)) : m \in SelectionLists}

IdleProbe == [kind |-> "Unknown", children |-> 0, start_row |-> 0, end_row |-> 0]

\* The State metrics() pushes for an empty file.
IdleScope ==
    [space |-> FuncSpace_new(1, "Unit", "Unit", 0, 0, 0), halstead_maps |-> HalsteadMaps_new]

\* No function is being handled on its own.
IdleStandalone ==
    /\ metrics_list = << >>
    /\ expansions = << >>
    /\ scope = IdleScope
    /\ derivations = << >>

\* ------------------------------------------- metrics(), spaces.rs 283-357

\* The children of node pushed in sibling order, the first child deepest.
PushChildren_forward(work, node, new_level) ==
    work \o [i \in 1..child_count(tree, node) |->
                [node |-> Children(tree, node)[i], level |-> new_level]]

\* The children pushed one level deeper than the scope they are in.
PushChildren_deeper(work, node, new_level) ==
    work \o Reverse([i \in 1..child_count(tree, node) |->
                        [node |-> Children(tree, node)[i], level |-> new_level + 1]])

\* The children of node with their level, pushed in reverse sibling order.
PushChildren(work, node, new_level) ==
    work \o Reverse([i \in 1..child_count(tree, node) |->
                        [node |-> Children(tree, node)[i], level |-> new_level]])

\* One iteration of the while loop (lines 298-349).
MetricsVisit ==
    /\ call = "metrics"
    /\ pc = "loop"
    /\ stack # << >>
    /\ LET node == Last(stack).node
           level == Last(stack).level
           k == tree.kind[node]
           kind == get_space_kind(k)
           func_space == is_func(k) \/ is_func_space(k)
           unit == kind = "Unit"
           new_level == IF func_space THEN level + 1 ELSE level
       IN \E closed \in {IF level < last_level
                         THEN finalize(state_stack, last_level - level, chosen)
                         ELSE [ok |-> TRUE, stack |-> state_stack]} :
          \E opened \in {IF func_space
                         THEN Append(closed.stack,
                                     [space |-> FuncSpace_new(node, k, kind, child_count(tree, node),
                                                              start_row(tree, node), end_row(tree, node)),
                                      halstead_maps |-> HalsteadMaps_new])
                         ELSE closed.stack} :
          IF ~closed.ok
          THEN /\ pc' = "panicked"
               /\ UNCHANGED <<stack, state_stack, last_level, dispatched, visited>>
          ELSE /\ last_level' = IF func_space THEN level + 1
                                ELSE IF level < last_level THEN level ELSE last_level
               /\ state_stack' =
                    IF opened = << >> THEN opened
                    ELSE [opened EXCEPT ![Len(opened)] =
                            IF is_full_or_true(chosen)
                            THEN compute_all_metrics(lang, NodeAt(tree, node), @, func_space, unit)
                            ELSE compute_certain_metrics(lang, NodeAt(tree, node), @,
                                                         func_space, unit, chosen[1])]
               /\ dispatched' = [dispatched EXCEPT ![node] =
                                   IF opened = << >> THEN 0 ELSE opened[Len(opened)].space.node]
               /\ stack' = PushChildren(Front(stack), node, new_level)
               /\ visited' = Append(visited, node)
               /\ pc' = "loop"
    /\ UNCHANGED <<tree, lang, path, call, chosen, previous, result, stats, merged, probe, made, standalone>>

\* The final drain (line 351).
MetricsDrain ==
    /\ call = "metrics"
    /\ pc = "loop"
    /\ stack = << >>
    /\ LET closed == finalize(state_stack, usize_MAX, chosen)
       IN /\ pc' = IF closed.ok THEN "drained" ELSE "panicked"
          /\ state_stack' = closed.stack
    /\ UNCHANGED <<tree, lang, path, call, chosen, previous, stack, last_level, result, dispatched, visited,
                   stats, merged, probe, made, standalone>>

\* The return (lines 353-356).
MetricsReturn ==
    /\ call = "metrics"
    /\ pc = "drained"
    /\ result' = Some(metrics_return(state_stack, to_str(path)))
    /\ state_stack' = IF state_stack = << >> THEN << >> ELSE Front(state_stack)
    /\ pc' = "done"
    /\ UNCHANGED <<tree, lang, path, call, chosen, previous, stack, last_level, dispatched, visited,
                   stats, merged, probe, made, standalone>>

\* ------------------------------ operands_and_operators(), ops.rs 121-190

\* One iteration of the while loop (lines 132-182).
OpsVisit ==
    /\ call = "operands_and_operators"
    /\ pc = "loop"
    /\ stack # << >>
    /\ LET node == Last(stack).node
           level == Last(stack).level
           closed == IF level < last_level
                     THEN ops_finalize(state_stack, last_level - level)
                     ELSE state_stack
           k == tree.kind[node]
           kind == get_space_kind(k)
           func_space == is_func(k) \/ is_func_space(k)
           opened == IF func_space
                     THEN Append(closed,
                                 [ops |-> Ops_new(node, k, kind, child_count(tree, node),
                                                  start_row(tree, node), end_row(tree, node)),
                                  halstead_maps |-> HalsteadMaps_new])
                     ELSE closed
           new_level == IF func_space THEN level + 1 ELSE level
           top == Len(opened)
       IN \E maps \in {IF opened = << >> THEN HalsteadMaps_new
                       ELSE Halstead_compute(NodeAt(tree, node), opened[top].halstead_maps)} :
          \E operands \in {OperandSpellings(maps.operands)} :
          IF opened # << >> /\ operands = None
          THEN \* from_utf8(k).unwrap() panics (line 166)
               /\ pc' = "panicked"
               /\ UNCHANGED <<stack, state_stack, last_level, dispatched, visited>>
          ELSE /\ last_level' = IF func_space THEN level + 1
                                ELSE IF level < last_level THEN level ELSE last_level
               /\ state_stack' =
                    IF opened = << >> THEN opened
                    ELSE [opened EXCEPT
                            ![top].halstead_maps = maps,
                            ![top].ops.operators = OperatorSpellings(maps.operators),
                            ![top].ops.operands = operands[1]]
               /\ dispatched' = [dispatched EXCEPT ![node] =
                                   IF opened = << >> THEN 0 ELSE opened[top].ops.node]
               /\ stack' = PushChildren(Front(stack), node, new_level)
               /\ visited' = Append(visited, node)
               /\ pc' = "loop"
    /\ UNCHANGED <<tree, lang, path, call, chosen, previous, result, stats, merged, probe, made, standalone>>

\* The final drain (line 184).
OpsDrain ==
    /\ call = "operands_and_operators"
    /\ pc = "loop"
    /\ stack = << >>
    /\ state_stack' = ops_finalize(state_stack, usize_MAX)
    /\ pc' = "drained"
    /\ UNCHANGED <<tree, lang, path, call, chosen, previous, stack, last_level, result, dispatched, visited,
                   stats, merged, probe, made, standalone>>

\* The return (lines 186-189).
OpsReturn ==
    /\ call = "operands_and_operators"
    /\ pc = "drained"
    /\ result' = Some(ops_return(state_stack, to_str(path)))
    /\ state_stack' = IF state_stack = << >> THEN << >> ELSE Front(state_stack)
    /\ pc' = "done"
    /\ UNCHANGED <<tree, lang, path, call, chosen, previous, stack, last_level, dispatched, visited,
                   stats, merged, probe, made, standalone>>

\* The caller of metrics() without a selection goes on to
\* operands_and_operators() with the same parser and path (ops.rs 121-130,
\* the stacks as they are before the loop).
OpsAfterMetrics ==
    /\ call = "metrics"
    /\ pc = "done"
    /\ chosen = None
    /\ previous = None
    /\ previous' = result
    /\ call' = "operands_and_operators"
    /\ stack' = <<[node |-> 1, level |-> 0]>>
    /\ state_stack' = << >>
    /\ last_level' = 0
    /\ pc' = "loop"
    /\ result' = None
    /\ dispatched' = [n \in NodesOf(tree) |-> 0]
    /\ visited' = << >>
    /\ UNCHANGED <<tree, lang, path, chosen, stats, merged, probe, made, standalone>>

\* metrics() called again on the same parser with a selection, after a call
\* without one has returned; the earlier result is kept for comparison.
MetricsAgain ==
    /\ call = "metrics"
    /\ pc = "done"
    /\ chosen = None
    /\ previous = None
    /\ chosen' \in Selections \ {None}
    /\ previous' = result
    /\ stack' = <<[node |-> 1, level |-> 0]>>
    /\ state_stack' = << >>
    /\ last_level' = 0
    /\ pc' = "loop"
    /\ result' = None
    /\ dispatched' = [n \in NodesOf(tree) |-> 0]
    /\ visited' = << >>
    /\ UNCHANGED <<tree, lang, path, call, stats, merged, probe, made, standalone>>

\* <ChosenMetrics as Iterator>::next, a public function, called on the
\* selection by the code that holds it, before the selection is handed to
\* metrics(): the selection moves on by one metric.
ChosenNext ==
    /\ call = "metrics"
    /\ pc = "loop"
    /\ visited = << >>
    /\ chosen # None
    /\ chosen[1].index < MaxNext
    /\ Len(tree.kind) <= MaxAdvanced
    /\ chosen' = Some(ChosenMetrics_next(chosen[1]).self)
    /\ chosen' # chosen
    /\ UNCHANGED <<tree, lang, path, call, previous, stack, state_stack, last_level, pc, result,
                   dispatched, visited, stats, merged, probe, made, standalone>>

\* The languages an enumerated tree is parsed in: the grammar fields are
\* looked up by the Rust hook alone, the operand bytes are handled alike in
\* every language, and the C++ hook, which counts as the JavaScript one does,
\* is run on the trees of its tests.
LangsOf(t) ==
    IF \E i \in NodesOf(t) : t.fields[i] # NoFields THEN {"Rust"}
    ELSE IF \E i \in NodesOf(t) : t.text[i] # DefaultText(t.kind[i]) THEN {"Python"}
    ELSE Langs \ {"Cpp"}

\* The paths a tree is handed over with.
PathsOf(t, l) ==
    IF Len(t.kind) <= MaxAttributed /\ t = Plain(t.kind, t.parent)
    THEN Paths(l)
    ELSE {FileName(l)}

\* A first call, of metrics() without a selection or of
\* operands_and_operators(); the calls of metrics() with a selection follow a
\* call without one on the same parser (MetricsAgain).
Init ==
    /\ \/ /\ tree \in EnumeratedTrees \cup AttributedTrees
          /\ lang \in LangsOf(tree)
          /\ path \in PathsOf(tree, lang)
       \/ \E c \in TestCases : tree = c.tree /\ lang = c.lang /\ path = c.path
    /\ call \in {"metrics", "operands_and_operators"}
    /\ chosen = None
    /\ stack = <<[node |-> 1, level |-> 0]>>
    /\ state_stack = << >>
    /\ last_level = 0
    /\ pc = "loop"
    /\ result = None
    /\ dispatched = [n \in NodesOf(tree) |-> 0]
    /\ visited = << >>
    /\ stats = Stats_default
    /\ merged = None
    /\ probe = IdleProbe
    /\ made = None
    /\ previous = None
    /\ IdleStandalone

Next ==
    \/ MetricsVisit
    \/ MetricsDrain
    \/ MetricsReturn
    \/ OpsVisit
    \/ OpsDrain
    \/ OpsReturn
    \/ OpsAfterMetrics
    \/ MetricsAgain
    \/ ChosenNext

Spec == Init /\ [][Next]_vars

\* The steps of the two functions themselves: a call that has started runs
\* on, single-threaded, until it returns or aborts.
Walk ==
    \/ MetricsVisit
    \/ MetricsDrain
    \/ MetricsReturn
    \/ OpsVisit
    \/ OpsDrain
    \/ OpsReturn

SpecLive == Init /\ [][Next]_vars /\ WF_vars(Walk)

\* ---------------------------------- nexits.rs Stats, handled on its own

StatsValues ==
    [fn_nexits : 0..MaxExits, closure_nexits : 0..MaxExits,
     total_space_functions : 0..MaxExits]

\* An Exit hook visits a node.
StatsCompute ==
    /\ \E l \in ExitLangs, k \in NodeKinds :
       \E f \in FieldsOf(k) :
          /\ stats' = Exit_compute(l, [kind |-> k, fields |-> f, text |-> DefaultText(k)], stats)
          /\ stats' \in StatsValues
    /\ merged' = None
    /\ UNCHANGED <<traversal, probe, made, standalone>>

\* Stats::merge(other)
StatsMerge ==
    /\ \E other \in StatsValues :
          /\ stats' = Stats_merge(stats, other)
          /\ stats' \in StatsValues
          /\ merged' = Some([self |-> stats, other |-> other])
    /\ UNCHANGED <<traversal, probe, made, standalone>>

\* Stats::finalize(total_space_functions)
StatsFinalize ==
    /\ \E n \in 0..MaxExits : stats' = Stats_finalize(stats, n)
    /\ merged' = None
    /\ UNCHANGED <<traversal, probe, made, standalone>>

Idle ==
    /\ tree = Plain(<<"Unit">>, <<0>>)
    /\ lang = "Python"
    /\ path = FileName("Python")
    /\ call = "none"
    /\ chosen = None
    /\ stack = << >>
    /\ state_stack = << >>
    /\ last_level = 0
    /\ pc = "idle"
    /\ result = None
    /\ dispatched = <<0>>
    /\ previous = None
    /\ visited = << >>

InitStats ==
    /\ Idle
    /\ stats = Stats_default
    /\ merged = None
    /\ probe = IdleProbe
    /\ made = None
    /\ IdleStandalone

NextStats == StatsCompute \/ StatsMerge \/ StatsFinalize

SpecStats == InitStats /\ [][NextStats]_vars

\* ------------------------ FuncSpace::new and Ops::new, handled on their own

Probes ==
    {p \in [kind : SpaceKind, children : 0..1, start_row : 0..MaxRow, end_row : 0..MaxRow] :
        p.start_row <= p.end_row}

NewSpace ==
    /\ made = None
    /\ made' = Some([space |-> FuncSpace_new(1, probe.kind, probe.kind, probe.children,
                                             probe.start_row, probe.end_row),
                     ops |-> Ops_new(1, probe.kind, probe.kind, probe.children,
                                     probe.start_row, probe.end_row)])
    /\ UNCHANGED <<traversal, stats, merged, probe, standalone>>

InitNew ==
    /\ Idle
    /\ stats = Stats_default
    /\ merged = None
    /\ probe \in Probes
    /\ made = None
    /\ IdleStandalone

NextNew == NewSpace

SpecNew == InitNew /\ [][NextNew]_vars

\* ------------------------------------ ChosenMetrics::new, handled on its own

\* The lists naming every metric of S once, in every order.
RECURSIVE Orderings(_)
Orderings(S) ==
    IF S = {} THEN {<< >>}
    ELSE UNION {{<<m>> \o p : p \in Orderings(S \ {m})} : m \in S}

FullLists == Orderings(MetricsList)

\* The lists a caller passes: every list of at most MaxList metrics, every
\* list naming all seven, and each of those with one metric named again.
MetricsLists ==
    UNION {[1..n -> MetricsList] : n \in 0..MaxList}
      \cup FullLists
      \cup {Append(p, m) : p \in FullLists, m \in MetricsList}

\* ChosenMetrics::new(&metrics_list)
ChosenNew ==
    /\ expansions = << >>
    /\ expansions' = <<ChosenMetrics_new(metrics_list)>>
    /\ UNCHANGED <<traversal, stats, merged, probe, made, metrics_list, scope, derivations>>

\* ChosenMetrics::new of the list the first call built.
ChosenNewAgain ==
    /\ Len(expansions) = 1
    /\ expansions' = Append(expansions, ChosenMetrics_new(expansions[1].chosen_metrics))
    /\ UNCHANGED <<traversal, stats, merged, probe, made, metrics_list, scope, derivations>>

InitChosen ==
    /\ Idle
    /\ stats = Stats_default
    /\ merged = None
    /\ probe = IdleProbe
    /\ made = None
    /\ metrics_list \in MetricsLists
    /\ expansions = << >>
    /\ scope = IdleScope
    /\ derivations = << >>

NextChosen == ChosenNew \/ ChosenNewAgain

SpecChosen == InitChosen /\ [][NextChosen]_vars

\* ------------------------------ compute_halstead_and_mi, handled on its own

OperatorMaps == {EmptyMap} \cup {[x \in {ReturnId} |-> n] : n \in 1..MaxCount}

OperandMaps == UNION {[K -> 1..MaxCount] : K \in SUBSET {<<97>>, <<102>>}}

\* The States of a function scope with its line and branch counts and its
\* token maps filled in, its token and maintainability Stats not yet derived.
ScopeStates ==
    {[space |-> [FuncSpace_new(1, "Function", "Function", 0, 0, 0) EXCEPT
                   !.metrics.loc = l, !.metrics.cyclomatic = c],
      halstead_maps |-> [operators |-> ops, operands |-> opd]] :
        l \in 0..MaxCount, c \in 0..MaxCount, ops \in OperatorMaps, opd \in OperandMaps}

DeriveSelections == Selections \cup {Some(ChosenMetrics_new(<<"Halstead">>))}

\* compute_halstead_and_mi(&mut state, chosen_metrics)
Derive ==
    /\ derivations = << >>
    /\ derivations' = <<compute_halstead_and_mi(scope, chosen)>>
    /\ UNCHANGED <<traversal, stats, merged, probe, made, metrics_list, expansions, scope>>

\* compute_halstead_and_mi on the same State once more, nothing in between.
DeriveAgain ==
    /\ Len(derivations) = 1
    /\ derivations' = Append(derivations, compute_halstead_and_mi(derivations[1], chosen))
    /\ UNCHANGED <<traversal, stats, merged, probe, made, metrics_list, expansions, scope>>

InitDerive ==
    /\ tree = Plain(<<"Unit">>, <<0>>)
    /\ lang = "Python"
    /\ path = FileName("Python")
    /\ call = "none"
    /\ chosen \in DeriveSelections
    /\ stack = << >>
    /\ state_stack = << >>
    /\ last_level = 0
    /\ pc = "idle"
    /\ result = None
    /\ dispatched = <<0>>
    /\ previous = None
    /\ visited = << >>
    /\ stats = Stats_default
    /\ merged = None
    /\ probe = IdleProbe
    /\ made = None
    /\ metrics_list = << >>
    /\ expansions = << >>
    /\ scope \in ScopeStates
    /\ derivations = << >>

NextDerive == Derive \/ DeriveAgain

SpecDerive == InitDerive /\ [][NextDerive]_vars

\* ------------------------------------------------- reading a returned tree

\* The call has returned Some(root).
Returned(f) == call = f /\ pc = "done" /\ result[1] # None

Root == result[1][1]

RECURSIVE SpacesOf(_)
SpacesOf(s) == {s} \cup UNION {SpacesOf(s.spaces[i]) : i \in 1..Len(s.spaces)}

OpensScope(n) == is_func(tree.kind[n]) \/ is_func_space(tree.kind[n])

ScopeNodes == {n \in NodesOf(tree) : OpensScope(n)}

\* The nearest scope-opening proper ancestor of n, 0 when there is none.
RECURSIVE NearestScope(_)
NearestScope(n) ==
    LET p == tree.parent[n]
    IN IF p = 0 THEN 0 ELSE IF OpensScope(p) THEN p ELSE NearestScope(p)

\* Metric m is in the active set of this call of metrics().
Active(m) == is_full_or_true(chosen) \/ is_metric(chosen[1], m)

\* The hook of metric m runs at the nodes this call of metrics() visits: with
\* a selection that is not full, m lies at or after the selection's index.
Runs(m) ==
    \/ is_full_or_true(chosen)
    \/ \E i \in (chosen[1].index + 1)..Len(chosen[1].chosen_metrics) :
          chosen[1].chosen_metrics[i] = m

\* What the Exit hook adds for the nodes dispatched to the scope opened by id.
OwnExits(id) ==
    LET nodes == SortedSeq({n \in NodesOf(tree) : dispatched[n] = id})
        added(n) == IF Runs("Nexits")
                    THEN Exit_compute(lang, NodeAt(tree, n), Stats_default)
                    ELSE Stats_default
    IN [fn_nexits |-> SumSeq([i \in 1..Len(nodes) |-> added(nodes[i]).fn_nexits]),
        closure_nexits |-> SumSeq([i \in 1..Len(nodes) |-> added(nodes[i]).closure_nexits])]

ChildrenExits(s) ==
    [fn_nexits |->
         SumSeq([i \in 1..Len(s.spaces) |-> s.spaces[i].metrics.nexits.fn_nexits]),
     closure_nexits |->
         SumSeq([i \in 1..Len(s.spaces) |-> s.spaces[i].metrics.nexits.closure_nexits])]

\* ------------------------------------------------------------------ claims

\* C1: metrics() completes for every tree and classification, returning None
\* exactly when the traversal opened no space and Some(root) otherwise; with
\* no scope-opening node it returns None and does not abort.
C1_NoneIffNoSpaceOpened ==
    call = "metrics" =>
        /\ pc # "panicked"
        /\ pc = "done" => (result[1] = None <=> ScopeNodes = {})

\* The own contributions of s and of all its descendants, at every depth.
SubtreeExits(s) ==
    LET ids == SortedSeq({d.node : d \in SpacesOf(s)})
    IN [fn_nexits |-> SumSeq([i \in 1..Len(ids) |-> OwnExits(ids[i]).fn_nexits]),
        closure_nexits |-> SumSeq([i \in 1..Len(ids) |-> OwnExits(ids[i]).closure_nexits])]

\* C2: in the tree metrics() returns, the function-exit and closure-exit
\* counters of every space equal what the nodes dispatched to that space
\* added plus the sum of the final counters of its direct children, that is
\* its own contribution plus those of all its descendants.
C2_CumulativeExits ==
    Returned("metrics") =>
        \A s \in SpacesOf(Root) :
            /\ s.metrics.nexits.fn_nexits =
                   OwnExits(s.node).fn_nexits + ChildrenExits(s).fn_nexits
            /\ s.metrics.nexits.closure_nexits =
                   OwnExits(s.node).closure_nexits + ChildrenExits(s).closure_nexits
            /\ s.metrics.nexits.fn_nexits = SubtreeExits(s).fn_nexits
            /\ s.metrics.nexits.closure_nexits = SubtreeExits(s).closure_nexits

\* A returned tree three spaces deep whose innermost space counts a function
\* exit and whose middle space counts a closure exit of its own.
C2_Witness ==
    /\ Returned("metrics")
    /\ \E c \in 1..Len(Root.spaces) :
          /\ Root.spaces[c].spaces # << >>
          /\ Root.spaces[c].spaces[1].metrics.nexits.fn_nexits >= 1
          /\ OwnExits(Root.spaces[c].node).closure_nexits >= 1
          /\ OwnExits(Root.node).fn_nexits = 0

\* C3: when the root node opens a scope, the children of every space of the
\* returned tree are in the pre-order (document) order of the nodes that
\* opened them.
C3_ChildrenInDocumentOrder ==
    (Returned("metrics") /\ OpensScope(1)) =>
        \A s \in SpacesOf(Root) :
            \A i, j \in 1..Len(s.spaces) :
                i < j => s.spaces[i].node < s.spaces[j].node

\* Two sibling scopes, the first of which has a scope nested in it: two
\* scopes of different depths close between the siblings.
C3_Witness ==
    /\ Returned("metrics")
    /\ OpensScope(1)
    /\ Len(Root.spaces) >= 2
    /\ Root.spaces[1].spaces # << >>

\* C4: with the maintainability metric active, the maintainability value of
\* every space of the returned tree is the one computed from that space's
\* final line, branch and token metrics; no child's value is added to it.
C4_MaintainabilityFromFinalMetrics ==
    (Returned("metrics") /\ Active("Mi")) =>
        \A s \in SpacesOf(Root) :
            s.metrics.mi = Mi_compute(s.metrics.loc, s.metrics.cyclomatic, s.metrics.halstead)

\* A root whose lines and tokens come from a child scope and whose
\* maintainability value is computed from them.
C4_Witness ==
    /\ Returned("metrics")
    /\ Active("Mi")
    /\ Root.spaces # << >>
    /\ Root.spaces[1].metrics.loc >= 1
    /\ Root.metrics.mi.loc >= 1
    /\ Root.metrics.mi.halstead.operators >= 1

\* The file of claim C5: a Unit root whose children are n >= 1 functions, each
\* holding one return statement and nothing else.
SiblingFunctionsFile ==
    /\ tree.kind[1] = "Unit"
    /\ ChildSet(tree, 1) # {}
    /\ \A f \in ChildSet(tree, 1) :
          /\ tree.kind[f] = "Function"
          /\ child_count(tree, f) = 1
          /\ \A r \in ChildSet(tree, f) :
                tree.kind[r] = "Return" /\ child_count(tree, r) = 0

\* C5: the exit-point average of a space is its exit total divided by the
\* number of its functions: a root with n >= 1 sibling functions of one
\* return each has exit sum n and average 1.0.
C5_AverageOverFunctions ==
    (Returned("metrics") /\ Runs("Nexits") /\ SiblingFunctionsFile) =>
        /\ fn_exits(Root.metrics.nexits) = child_count(tree, 1)
        /\ nexits_average(Root.metrics.nexits) = Finite(1, 1)

\* C6: an exit-point Stats whose function count is zero, also after
\* finalize(0), has average 0, never a non-finite value.
C6_ZeroDenominatorAverage ==
    stats.total_space_functions = 0 => nexits_average(stats) = Finite(0, 1)

\* Return statements whose nearest enclosing scope is a closure / is not.
ReturnsInClosures ==
    {n \in NodesOf(tree) :
        /\ tree.kind[n] = "Return"
        /\ NearestScope(n) # 0
        /\ is_closure(tree.kind[NearestScope(n)])}

ReturnsElsewhere ==
    {n \in NodesOf(tree) : tree.kind[n] = "Return"} \ ReturnsInClosures

\* C7: in JavaScript and C++ a return statement inside a closure counts in
\* closure_exits and not in fn_exits: one closure with one return gives
\* fn_exits 0, closure_exits 1, total 1.
C7_ClosureReturnsAreClosureExits ==
    (/\ Returned("metrics")
     /\ Runs("Nexits")
     /\ lang \in {"Javascript", "Cpp"}
     /\ tree.kind[1] = "Unit") =>
        /\ closure_exits(Root.metrics.nexits) = Cardinality(ReturnsInClosures)
        /\ fn_exits(Root.metrics.nexits) = Cardinality(ReturnsElsewhere)
        /\ total(Root.metrics.nexits) =
               Cardinality(ReturnsInClosures) + Cardinality(ReturnsElsewhere)

\* C8: a FuncSpace or Ops made from a node with start_row <= end_row, other
\* than a Unit with no children, has end_line >= start_line.
C8_EndNotBeforeStart ==
    (made # None /\ ~(probe.kind = "Unit" /\ probe.children = 0)) =>
        /\ made[1].space.end_line >= made[1].space.start_line
        /\ made[1].ops.end_line >= made[1].ops.start_line

\* A tree that is one Unit node without children.
EmptyFile == Len(tree.kind) = 1 /\ tree.kind[1] = "Unit"

\* C9: for a single Unit root without children metrics() returns Some(root),
\* a Unit of span (0, 0) without child spaces and with every additive counter
\* at zero.
C9_EmptyFileRoot ==
    (call = "metrics" /\ pc = "done" /\ EmptyFile) =>
        /\ result[1] # None
        /\ Root.kind = "Unit"
        /\ Root.start_line = 0 /\ Root.end_line = 0
        /\ Root.spaces = << >>
        /\ fn_exits(Root.metrics.nexits) = 0
        /\ closure_exits(Root.metrics.nexits) = 0
        /\ total(Root.metrics.nexits) = 0
        /\ Root.metrics.loc = 0
        /\ Root.metrics.cyclomatic = 0

\* metrics() has returned for the empty file.
C9_Witness == Returned("metrics") /\ EmptyFile /\ dispatched[1] = 1

\* C10: the root of a tree returned by metrics() or operands_and_operators()
\* is named from the input path (path.to_str(): the path as text, absent when
\* its bytes are not UTF-8) and not by the adapter; every other space has the
\* name the adapter returned for the node that opened it, absent when it
\* returned none.
C10_RootNamedFromPath ==
    (pc = "done" /\ result[1] # None) =>
        /\ Root.name = to_str(path)
        /\ \A s \in SpacesOf(Root) \ {Root} :
              s.name = get_func_space_name(tree.kind[s.node])

\* A returned Ops tree whose root node the adapter named otherwise, with a
\* named and an unnamed space below the root.
C10_Witness ==
    /\ Returned("operands_and_operators")
    /\ get_func_space_name(tree.kind[Root.node]) # None
    /\ get_func_space_name(tree.kind[Root.node]) # to_str(path)
    /\ \E s \in SpacesOf(Root) \ {Root} : s.name = None
    /\ \E s \in SpacesOf(Root) \ {Root} : s.name = Some("f")

\* The metrics a list requests or implies: Mi implies Cyclomatic, Loc and
\* Halstead.
RequestedOrImplied(list) ==
    {m \in MetricsList :
        \/ Contains(list, m)
        \/ Contains(list, "Mi") /\ m \in {"Cyclomatic", "Loc", "Halstead"}}

\* C11: for every list of metrics, of any length and order and with or
\* without repetitions, the set ChosenMetrics::new builds holds every requested
\* metric, holds Cyclomatic, Loc and Halstead whenever Mi is requested, holds
\* no metric twice and none that is neither requested nor implied; building
\* it again from its own result gives the same list.
C11_SelectionExpansion ==
    /\ expansions # << >> =>
          LET self == expansions[1]
              chosen_metrics == self.chosen_metrics
          IN /\ \A m \in MetricsList :
                   is_metric(self, m) <=> m \in RequestedOrImplied(metrics_list)
             /\ \A i, j \in 1..Len(chosen_metrics) :
                   i < j => chosen_metrics[i] # chosen_metrics[j]
             /\ self.index = 0
    /\ Len(expansions) = 2 => expansions[2] = expansions[1]

\* Mi requested twice among other metrics, without Loc: the expansion adds
\* the three implied metrics and was built a second time from its result.
C11_Witness ==
    /\ Len(expansions) = 2
    /\ Len(metrics_list) = 3
    /\ metrics_list[1] = "Mi" /\ metrics_list[3] = "Mi"
    /\ metrics_list[2] = "Nexits"
    /\ is_metric(expansions[1], "Loc")
    /\ Len(expansions[1].chosen_metrics) = 5

\* The token maps are finalized during this call of metrics().
TokensActive == is_metric_or_true(chosen, "Mi") \/ is_metric_or_true(chosen, "Halstead")

\* C12: during a traversal the token maps of a scope are finalized into its
\* token Stats once, when the scope is closed: never while the scope is
\* still open, and once for every space of the returned tree.
C12_TokensFinalizedOnceAtClose ==
    (call = "metrics" /\ TokensActive /\ OpensScope(1)) =>
        /\ pc = "loop" =>
              \A i \in 1..Len(state_stack) : state_stack[i].space.finalized = 0
        /\ Returned("metrics") =>
              \A s \in SpacesOf(Root) : s.finalized = 1

\* C13: deriving the token Stats and the maintainability Stats of a scope
\* State twice in succession, with no node visit and no merge in between,
\* leaves both as the first derivation left them.
C13_IdempotentDerivation ==
    Len(derivations) = 2 =>
        /\ derivations[2].space.metrics.halstead = derivations[1].space.metrics.halstead
        /\ derivations[2].space.metrics.mi = derivations[1].space.metrics.mi
        /\ derivations[2].halstead_maps = derivations[1].halstead_maps

\* Every metric active and a scope with lines, operators and operands: both
\* derivations wrote the token Stats and the maintainability Stats.
C13_Witness ==
    /\ Len(derivations) = 2
    /\ chosen = None
    /\ derivations[2].space.finalized = 2
    /\ derivations[1].space.metrics.halstead.operators = MaxCount
    /\ derivations[1].space.metrics.halstead.u_operands = 2
    /\ derivations[1].space.metrics.mi.loc >= 1
    /\ derivations[1].space.metrics.mi.halstead.operators = MaxCount

\* No entry of the list occurs twice.
DuplicateFree(list) == \A i, j \in 1..Len(list) : i < j => list[i] # list[j]

\* C14: in the tree operands_and_operators() returns, the operands list and
\* the operators list of every space hold each spelling at most once, also
\* when two or more child scopes use the same operand or operator.
C14_DistinctSpellings ==
    Returned("operands_and_operators") =>
        \A s \in SpacesOf(Root) :
            DuplicateFree(s.operands) /\ DuplicateFree(s.operators)

\* What FuncSpace and Ops have in common: name, line span, kind and the
\* children in their order.
RECURSIVE Shape(_)
Shape(s) ==
    [name |-> s.name,
     start_line |-> s.start_line,
     end_line |-> s.end_line,
     kind |-> s.kind,
     spaces |-> [i \in 1..Len(s.spaces) |-> Shape(s.spaces[i])]]

\* C15: on every tree on which a space is opened, the Ops tree returned by
\* operands_and_operators() and the FuncSpace tree returned by metrics() have
\* the same shape: corresponding spaces have equal name, start_line, end_line
\* and kind and the same number and order of children.
C15_TwinShape ==
    (call = "operands_and_operators" /\ pc = "done" /\ previous # None) =>
        /\ previous[1] # None
        /\ result[1] # None
        /\ Shape(Root) = Shape(previous[1][1])

\* Both calls returned for a file whose root holds two scopes, the first with
\* a scope nested in it and the second a closure without a name.
C15_Witness ==
    /\ Returned("operands_and_operators")
    /\ previous # None
    /\ Root.kind = "Unit"
    /\ Len(Root.spaces) = 2
    /\ Root.spaces[1].spaces # << >>
    /\ Root.spaces[2].name = None
    /\ Len(previous[1][1].spaces) = 2

\* C16: operands_and_operators() never aborts; it returns None exactly when
\* the traversal opened no space and Some(root) otherwise, the final drain
\* of an empty open-scope stack leaving it empty.
C16_OpsNoneIffNoSpaceOpened ==
    call = "operands_and_operators" =>
        /\ pc \in {"loop", "drained", "done"}
        /\ (pc = "drained" /\ ScopeNodes = {}) => state_stack = << >>
        /\ (pc = "drained" /\ ScopeNodes # {}) => Len(state_stack) = 1
        /\ pc = "done" => (result[1] = None <=> ScopeNodes = {})

\* operands_and_operators() returned None for a tree of several nodes none
\* of which opens a space.
C16_Witness ==
    /\ call = "operands_and_operators"
    /\ pc = "done"
    /\ result[1] = None
    /\ Len(tree.kind) >= 3
    /\ ScopeNodes = {}

\* The line span the rule gives a space made from the probed node.
RuleSpan ==
    CASE probe.kind = "Unit" /\ probe.children = 0 -> <<0, 0>>
      [] probe.kind = "Unit" /\ probe.children > 0 -> <<probe.start_row + 1, probe.end_row>>
      [] OTHER -> <<probe.start_row + 1, probe.end_row + 1>>

\* C17: a space made from a node with rows (start_row, end_row) records
\* (0, 0) if it is a Unit and the node has no children, (start_row + 1,
\* end_row) if it is a Unit and the node has children, and (start_row + 1,
\* end_row + 1) for every other kind; FuncSpace and Ops alike.
C17_LineSpanRule ==
    made # None =>
        /\ <<made[1].space.start_line, made[1].space.end_line>> = RuleSpan
        /\ <<made[1].ops.start_line, made[1].ops.end_line>> = RuleSpan

\* A Unit with children spanning rows 0 to 2 was made into a FuncSpace and
\* an Ops of lines 1 to 2.
C17_Witness ==
    /\ made # None
    /\ probe.kind = "Unit"
    /\ probe.children = 1
    /\ probe.start_row = 0
    /\ probe.end_row = 2
    /\ made[1].ops.end_line = 2
    /\ made[1].space.start_line = 1

\* The node whose scope node n belongs to: n itself when it opens a scope,
\* otherwise its nearest scope-opening ancestor.
Owner(n) == IF OpensScope(n) THEN n ELSE NearestScope(n)

\* C18: when the root node opens a scope, every visited node is dispatched
\* to the hooks of one scope, the one opened by its nearest scope-opening
\* ancestor-or-self: a scope-opening node to its own scope, a node that
\* follows a closed child scope to the parent again; by the end of the walk
\* every node has been dispatched.
C18_Attribution ==
    (call = "metrics" /\ OpensScope(1)) =>
        \A n \in NodesOf(tree) :
            /\ dispatched[n] # 0 => dispatched[n] = Owner(n)
            /\ pc \in {"drained", "done"} => dispatched[n] # 0

\* The walk is over for a tree where a node of the root's scope follows a
\* child scope that holds a node of its own.
C18_Witness ==
    /\ Returned("metrics")
    /\ OpensScope(1)
    /\ \E c, m, n \in NodesOf(tree) :
          /\ 1 < c /\ c < m /\ m < n
          /\ OpensScope(c)
          /\ ~OpensScope(m) /\ dispatched[m] = c
          /\ ~OpensScope(n) /\ dispatched[n] = 1

\* The token maps of the open scopes ss[i], .., ss[Len(ss)] merged into one,
\* and the sum of their line counts.
RECURSIVE MapsFrom(_, _)
MapsFrom(ss, i) ==
    IF i >= Len(ss) THEN ss[i].halstead_maps
    ELSE HalsteadMaps_merge(ss[i].halstead_maps, MapsFrom(ss, i + 1))

RECURSIVE LocFrom(_, _)
LocFrom(ss, i) ==
    IF i > Len(ss) THEN 0 ELSE ss[i].space.metrics.loc + LocFrom(ss, i + 1)

\* The open scopes ss[i], .., ss[Len(ss)] were closed innermost first into
\* the space `into`, which was ss[i - 1]: ss[i] is the child appended last to
\* it, holds the scopes above it in the same way, has its token Stats derived
\* from its merged maps and its maintainability Stats from its final
\* metrics, and its lines are those of all the scopes closed into it.
RECURSIVE ClosedInto(_, _, _)
ClosedInto(into, ss, i) ==
    IF i > Len(ss) THEN into.spaces = ss[i - 1].space.spaces
    ELSE /\ into.spaces # << >>
         /\ Front(into.spaces) = ss[i - 1].space.spaces
         /\ LET c == Last(into.spaces)
            IN /\ c.node = ss[i].space.node
               /\ TokensActive =>
                     c.metrics.halstead = HalsteadMaps_finalize(MapsFrom(ss, i))
               /\ Active("Mi") =>
                     c.metrics.mi =
                         Mi_compute(c.metrics.loc, c.metrics.cyclomatic, c.metrics.halstead)
               /\ c.metrics.loc = LocFrom(ss, i)
               /\ ClosedInto(c, ss, i + 1)

\* C19: when the root node opens a scope and a node is popped whose level is
\* below the last-seen level, exactly last_level - level open scopes are
\* closed, innermost first; each closed scope has its token and
\* maintainability Stats derived before its metrics and token maps are merged
\* into the scope beneath it and before it is appended to that scope's
\* children.
C19_LevelDiffFinalize ==
    [][(/\ call = "metrics"
        /\ pc = "loop"
        /\ stack # << >>
        /\ OpensScope(1)
        /\ Last(stack).level < last_level) =>
          LET node == Last(stack).node
              k == tree.kind[node]
              keep == Len(state_stack) - (last_level - Last(stack).level)
              opens == OpensScope(node)
          IN /\ keep >= 1
             /\ pc' = "loop"
             /\ Len(state_stack') = keep + (IF opens THEN 1 ELSE 0)
             /\ \A i \in 1..(keep - 1) : state_stack'[i] = state_stack[i]
             /\ state_stack'[keep].space.node = state_stack[keep].space.node
             /\ ClosedInto(state_stack'[keep].space, state_stack, keep + 1)
             /\ state_stack'[keep].halstead_maps =
                    IF opens \/ ~Runs("Halstead")
                    THEN MapsFrom(state_stack, keep)
                    ELSE Halstead_compute(NodeAt(tree, node), MapsFrom(state_stack, keep))]_vars

\* The walk goes on in the root's scope after a child scope and the scope
\* nested in it were closed by one node: two levels were left at once.
C19_Witness ==
    /\ call = "metrics"
    /\ pc = "loop"
    /\ OpensScope(1)
    /\ Len(state_stack) = 1
    /\ last_level = 1
    /\ state_stack[1].space.spaces # << >>
    /\ state_stack[1].space.spaces[1].spaces # << >>
    /\ \E n \in NodesOf(tree) :
          /\ dispatched[n] = 1
          /\ n > state_stack[1].space.spaces[1].spaces[1].node
          /\ tree.parent[state_stack[1].space.spaces[1].spaces[1].node] =
                 state_stack[1].space.spaces[1].node

\* The number of spaces of the tree below and including s, each counted as
\* often as it occurs.
RECURSIVE SpaceCount(_)
SpaceCount(s) == 1 + SumSeq([i \in 1..Len(s.spaces) |-> SpaceCount(s.spaces[i])])

\* The scope-opening nodes visited so far.
VisitedScopes == {n \in ScopeNodes : dispatched[n] # 0}

\* The spaces held by the open-scope stack, open or closed into an open one.
HeldCount == SumSeq([i \in 1..Len(state_stack) |-> SpaceCount(state_stack[i].space)])

HeldNodes ==
    UNION {{s.node : s \in SpacesOf(state_stack[i].space)} : i \in 1..Len(state_stack)}

\* C20: every scope pushed during a traversal is in one place at any time,
\* on the open-scope stack or in one child list below it, and leaves the
\* stack once; after the final drain the stack holds one state, the root,
\* and the returned tree holds every scope-opening node visited once, so it
\* has as many spaces as scope-opening nodes were visited.
C20_ConservationOfScopes ==
    call = "metrics" =>
        /\ pc \in {"loop", "drained"} =>
              /\ HeldNodes = VisitedScopes
              /\ HeldCount = Cardinality(VisitedScopes)
              /\ \A i, j \in 1..Len(state_stack) :
                    i < j => state_stack[i].space.node < state_stack[j].space.node
        /\ pc = "drained" => Len(state_stack) = 1 /\ VisitedScopes = ScopeNodes
        /\ Returned("metrics") =>
              /\ state_stack = << >>
              /\ {s.node : s \in SpacesOf(Root)} = ScopeNodes
              /\ SpaceCount(Root) = Cardinality(ScopeNodes)

\* metrics() returned a tree of four spaces, two of them children of the
\* root and one nested deeper.
C20_Witness ==
    /\ Returned("metrics")
    /\ Cardinality(ScopeNodes) = 4
    /\ SpaceCount(Root) = 4
    /\ Len(Root.spaces) = 2

\* C21: the work stack, seeded with (root, 0), yields every node of the tree
\* once, in pre-order with siblings left to right: the i-th node popped is
\* node i of the document order, and when the stack is empty every node has
\* been popped.
C21_VisitOrder ==
    call \in {"metrics", "operands_and_operators"} =>
        /\ Len(visited) <= Len(tree.kind)
        /\ \A i \in 1..Len(visited) : visited[i] = i
        /\ stack = << >> => Len(visited) = Len(tree.kind)
        /\ \A i \in 1..Len(stack) : stack[i].node > Len(visited)

\* A walk is over for a tree whose root has two children, the first with a
\* child of its own: the grandchild was popped before the second child.
C21_Witness ==
    /\ call = "operands_and_operators"
    /\ pc = "done"
    /\ tree.parent = <<0, 1, 2, 1>>
    /\ visited = <<1, 2, 3, 4>>

\* C22: for every finite tree the main loop empties the work stack; the
\* final drain, called with usize::MAX iterations, closes at most the open
\* scopes but one and leaves the root; a traversal that opens a scope, and
\* every traversal of operands_and_operators(), reaches its return.
C22_Termination ==
    /\ (pc = "loop") ~> (stack = << >>)
    /\ (pc = "loop" /\ (call = "operands_and_operators" \/ ScopeNodes # {})) ~> (pc = "done")
    /\ [][(pc = "loop" /\ stack = << >> /\ state_stack # << >>) =>
             /\ pc' = "drained"
             /\ Len(state_stack') = 1
             /\ Len(state_stack) - Len(state_stack') <= Len(state_stack) - 1]_vars

\* metrics() returned for a tree of scopes nested as deep as the tree is
\* large: the final drain closed all of them but the root.
C22_Witness ==
    /\ Returned("metrics")
    /\ Len(tree.kind) = MaxNodes
    /\ \A n \in 2..Len(tree.kind) : tree.parent[n] = n - 1 /\ OpensScope(n)
    /\ OpensScope(1)
    /\ SpaceCount(Root) = MaxNodes

\* The tokens recorded by the nodes dispatched to the scope opened by id:
\* those the Halstead hook adds at each of them, when it runs.
RECURSIVE TokensOf(_, _)
TokensOf(nodes, maps) ==
    IF nodes = << >> THEN maps
    ELSE TokensOf(Tail(nodes),
                  IF call = "metrics" /\ ~Runs("Halstead") THEN maps
                  ELSE Halstead_compute(NodeAt(tree, Head(nodes)), maps))

OwnTokens(id) ==
    TokensOf(SortedSeq({n \in NodesOf(tree) : dispatched[n] = id}), HalsteadMaps_new)

\* The key-wise sum of a sequence of maps.
RECURSIVE SumMaps(_)
SumMaps(ms) ==
    IF ms = << >> THEN HalsteadMaps_new
    ELSE [operators |-> MapMerge(Head(ms).operators, SumMaps(Tail(ms)).operators),
          operands |-> MapMerge(Head(ms).operands, SumMaps(Tail(ms)).operands)]

\* Own tokens of the space s and the maps of all its descendant scopes.
SubtreeTokens(s) ==
    LET ids == SortedSeq({d.node : d \in SpacesOf(s)})
    IN SumMaps([i \in 1..Len(ids) |-> OwnTokens(ids[i])])

\* C23: in the tree metrics() returns with the token metric active, the token
\* Stats of every space are those derived from the key-wise sum of the tokens
\* recorded by the nodes dispatched to the space and the maps of all its
\* descendant scopes; the token Stats of the children are not added to them.
C23_TokensThroughMaps ==
    (Returned("metrics") /\ Active("Halstead")) =>
        \A s \in SpacesOf(Root) :
            s.metrics.halstead = HalsteadMaps_finalize(SubtreeTokens(s))

\* Two child scopes share an operand: the root counts it as one distinct
\* operand used twice, where the children's Stats add up to two distinct ones.
C23_Witness ==
    /\ Returned("metrics")
    /\ Active("Halstead")
    /\ Len(Root.spaces) = 2
    /\ Root.spaces[1].metrics.halstead.u_operands = 1
    /\ Root.spaces[2].metrics.halstead.u_operands = 1
    /\ Root.metrics.halstead.u_operands = 1
    /\ Root.metrics.halstead.operands >= 2

\* The metrics whose Stats the model holds.
ModelledMetrics == {"Nexits", "Cyclomatic", "Halstead", "Loc", "Mi"}

MetricValue(s, m) ==
    CASE m = "Nexits" -> s.metrics.nexits
      [] m = "Cyclomatic" -> s.metrics.cyclomatic
      [] m = "Halstead" -> s.metrics.halstead
      [] m = "Loc" -> s.metrics.loc
      [] m = "Mi" -> s.metrics.mi

\* The spaces s and t open the same scopes and agree on metric m everywhere.
RECURSIVE SameValue(_, _, _)
SameValue(s, t, m) ==
    /\ s.node = t.node
    /\ MetricValue(s, m) = MetricValue(t, m)
    /\ Len(s.spaces) = Len(t.spaces)
    /\ \A i \in 1..Len(s.spaces) : SameValue(s.spaces[i], t.spaces[i], m)

\* metrics() has returned with a selection, after it returned for the same
\* file without one.
ReturnedAgain == Returned("metrics") /\ chosen # None /\ previous # None

\* The selection handed to metrics() is as ChosenMetrics::new returned it: its
\* iterator stands at the first metric of the list, no call of next() was
\* made on it.
Fresh == chosen[1].index = 0

\* Every metric of the selection's list is held once in the list, and every
\* space of the tree metrics() returns has the same value of that metric as in
\* the tree returned with no selection; with a selection of all seven metrics
\* the two trees are equal.
SelectionIndependence ==
    /\ previous[1] # None
    /\ \A m \in ModelledMetrics :
          is_metric(chosen[1], m) =>
              /\ Cardinality({i \in 1..Len(chosen[1].chosen_metrics) :
                                 chosen[1].chosen_metrics[i] = m}) = 1
              /\ SameValue(Root, previous[1][1], m)
    /\ is_full(chosen[1]) => Root = previous[1][1]

\* C24: for a selection built by ChosenMetrics::new, every metric of its
\* expanded list is held once in the list, its hook runs once per visited
\* node, and every space of the tree metrics() returns has the same value of
\* that metric as in the tree returned with no selection; with a selection of
\* all seven metrics the two trees are equal.
C24_SelectionIndependence ==
    (ReturnedAgain /\ Fresh) =>
        /\ SelectionIndependence
        /\ \A m \in ModelledMetrics : is_metric(chosen[1], m) => Runs(m)

\* Exits alone are selected on a file with a return statement: the exit
\* counters are those of the run without a selection, the line counts differ.
C24_Witness ==
    /\ ReturnedAgain
    /\ chosen = Some(ChosenMetrics_new(<<"Nexits">>))
    /\ total(Root.metrics.nexits) > 0
    /\ Root.metrics.nexits = previous[1][1].metrics.nexits
    /\ Root.metrics.loc # previous[1][1].metrics.loc

DefaultValue(m) ==
    CASE m = "Nexits" -> CodeMetrics_default.nexits
      [] m = "Cyclomatic" -> CodeMetrics_default.cyclomatic
      [] m = "Halstead" -> CodeMetrics_default.halstead
      [] m = "Loc" -> CodeMetrics_default.loc
      [] m = "Mi" -> CodeMetrics_default.mi

\* C25: when metrics() runs with a selection, every metric outside the
\* expanded list keeps its default value in every space of the returned
\* tree; with Halstead in the list and Mi not, the token Stats are derived
\* from the maps and the maintainability Stats stay at their default, and with
\* neither in the list the token Stats stay at their default.
C25_UnselectedFrame ==
    (Returned("metrics") /\ chosen # None) =>
        \A s \in SpacesOf(Root) :
            /\ \A m \in ModelledMetrics :
                  ~is_metric(chosen[1], m) => MetricValue(s, m) = DefaultValue(m)
            /\ (is_metric(chosen[1], "Halstead") /\ ~is_metric(chosen[1], "Mi")) =>
                  /\ s.metrics.halstead = HalsteadMaps_finalize(SubtreeTokens(s))
                  /\ s.metrics.mi = Mi_default
            /\ (~is_metric(chosen[1], "Halstead") /\ ~is_metric(chosen[1], "Mi")) =>
                  s.metrics.halstead = Halstead_default

\* Halstead alone is selected on a file with a function that returns: the
\* tokens are counted, the lines and the maintainability score are not.
C25_Witness ==
    /\ Returned("metrics")
    /\ chosen = Some(ChosenMetrics_new(<<"Halstead">>))
    /\ \E n \in NodesOf(tree) : tree.kind[n] = "Return"
    /\ Len(Root.spaces) > 0
    /\ Root.metrics.halstead.operators > 0
    /\ Root.metrics.halstead.operands > 0
    /\ Root.metrics.mi = Mi_default
    /\ Root.metrics.loc = 0
    /\ Root.metrics.nexits = Stats_default

\* C26: when the root node opens a scope, the tree metrics() returns mirrors
\* the nesting of the scopes in the syntax tree: its root is the space opened
\* by the root node, it holds the space of every scope-opening node, and the
\* space opened by node n is a direct child of the space opened by node m if
\* and only if m is the nearest scope-opening proper ancestor of n.
C26_NestingFidelity ==
    (Returned("metrics") /\ OpensScope(1)) =>
        /\ Root.node = 1
        /\ {s.node : s \in SpacesOf(Root)} = ScopeNodes
        /\ \A s \in SpacesOf(Root) : \A n \in ScopeNodes :
              (\E i \in 1..Len(s.spaces) : s.spaces[i].node = n) <=> NearestScope(n) = s.node

\* A scope nested two scopes deep under a node that opens none: its space is
\* a child of the space of the scope around that node, not of the root's.
C26_Witness ==
    /\ Returned("metrics")
    /\ OpensScope(1)
    /\ \E n \in ScopeNodes :
          /\ tree.parent[n] # 0
          /\ ~OpensScope(tree.parent[n])
          /\ NearestScope(n) # 1
          /\ \E s \in SpacesOf(Root) :
                /\ s.node = NearestScope(n)
                /\ \E i \in 1..Len(s.spaces) : s.spaces[i].node = n
          /\ \A i \in 1..Len(Root.spaces) : Root.spaces[i].node # n

\* The node that opened the scope at the bottom of the open-scope stack.
\* operands_and_operators() is handed a file with an operand whose bytes are
\* not UTF-8.
BadOperand ==
    /\ call = "operands_and_operators"
    /\ \E n \in NodesOf(tree) :
          /\ tree.kind[n] \in {"Function", "Closure"}
          /\ ~from_utf8(tree.text[n]).ok

BottomNode ==
    IF call = "metrics" THEN state_stack[1].space.node ELSE state_stack[1].ops.node

\* C27: when the root node opens a scope, after every iteration of the main
\* loop of metrics() and of operands_and_operators() last_level is the number
\* of states on the open-scope stack and every pending work item has a level
\* from 1 to last_level; from the first iteration until the return the stack
\* is not empty and its bottom is the scope of the root node.
C27_LevelStack ==
    (call \in {"metrics", "operands_and_operators"} /\ OpensScope(1) /\ visited # << >>) =>
        /\ pc = "loop" =>
              /\ last_level = Len(state_stack)
              /\ \A i \in 1..Len(stack) : stack[i].level \in 1..last_level
        /\ pc \in {"loop", "drained"} =>
              /\ state_stack # << >>
              /\ BottomNode = 1
        /\ pc = "panicked" => BadOperand

\* A child scope was closed by the loop and work is still pending: the stack
\* is back to the root scope alone and last_level back to 1.
C27_Witness ==
    /\ call = "metrics"
    /\ pc = "loop"
    /\ OpensScope(1)
    /\ stack # << >>
    /\ \E n \in 2..Len(visited) : OpensScope(n) /\ dispatched[Len(visited)] = 1
    /\ last_level = 1
    /\ Len(state_stack) = 1
    /\ Len(state_stack[1].space.spaces) = 1

\* The first scope-opening node in document order.
FirstScope == CHOOSE n \in ScopeNodes : \A m \in ScopeNodes : n <= m

ReturnedEither == Returned("metrics") \/ Returned("operands_and_operators")

\* C28: when the root node opens no scope but some descendant does, the first
\* scope opened in document order stays at the bottom of the open-scope stack
\* from its opening to the return, whatever finalize is asked to close during
\* the loop; the returned root is that scope, every scope opened later is a
\* descendant of it, and every later node outside any scope of the syntax
\* tree is dispatched to it.
C28_FirstScopeIsRoot ==
    (call \in {"metrics", "operands_and_operators"} /\ ~OpensScope(1) /\ ScopeNodes # {}) =>
        /\ (pc \in {"loop", "drained"} /\ Len(visited) >= FirstScope) =>
              /\ state_stack # << >>
              /\ BottomNode = FirstScope
        /\ pc = "panicked" => BadOperand
        /\ ReturnedEither =>
              /\ Root.node = FirstScope
              /\ {s.node : s \in SpacesOf(Root)} = ScopeNodes
              /\ \A n \in NodesOf(tree) :
                    (n > FirstScope /\ Owner(n) = 0) => dispatched[n] = FirstScope

\* The root is a statement holding two functions side by side and a last
\* statement: the second function is a child of the first in the returned
\* tree and the last statement was dispatched to the first.
C28_Witness ==
    /\ Returned("metrics")
    /\ ~OpensScope(1)
    /\ FirstScope = 2
    /\ \E n \in ScopeNodes : \E k \in NodesOf(tree) :
          /\ n > 2 /\ tree.parent[n] = 1
          /\ k > n /\ tree.parent[k] = 1 /\ ~OpensScope(k)
          /\ dispatched[k] = 2
          /\ \E i \in 1..Len(Root.spaces) : Root.spaces[i].node = n

\* The entries of a list, as a set.
Range(list) == {list[i] : i \in 1..Len(list)}

\* C29: in the tree operands_and_operators() returns, the spellings in the
\* operands list of every space are those of the keys of the operand map that
\* sums the tokens of the nodes dispatched to the space and the maps of all
\* its descendant scopes, and likewise for the operators.
C29_ListsSpellMergedKeys ==
    Returned("operands_and_operators") =>
        \A s \in SpacesOf(Root) :
            /\ Range(s.operands) = {from_utf8(b).value : b \in DOMAIN SubtreeTokens(s).operands}
            /\ Range(s.operators) =
                  {get_operator_id_as_str(id) : id \in DOMAIN SubtreeTokens(s).operators}

\* Two child scopes return: the root's operator list holds the spelling of the
\* one key of its merged map, twice, and its operand list the name both
\* children carry.
C29_Witness ==
    /\ Returned("operands_and_operators")
    /\ Len(Root.spaces) = 2
    /\ Root.operators = <<"return", "return">>
    /\ DOMAIN SubtreeTokens(Root).operators = {ReturnId}
    /\ Range(Root.operands) = {"f"}

\* C30: Stats::merge of the exit-point metric adds the other value's function
\* and closure exit counters to the receiver's and leaves the receiver's
\* number of functions as it was, so the total after a merge is the sum of
\* the two totals; the total is always the function exits plus the closure
\* exits.
C30_MergeFrame ==
    /\ total(stats) = fn_exits(stats) + closure_exits(stats)
    /\ total(stats) = stats.fn_nexits + stats.closure_nexits
    /\ merged # None =>
          LET self == merged[1].self
              other == merged[1].other
          IN /\ stats.fn_nexits = self.fn_nexits + other.fn_nexits
             /\ stats.closure_nexits = self.closure_nexits + other.closure_nexits
             /\ stats.total_space_functions = self.total_space_functions
             /\ total(stats) = total(self) + total(other)

\* Two values with exits of both sorts and different numbers of functions
\* were merged.
C30_Witness ==
    /\ merged # None
    /\ merged[1].self.fn_nexits > 0
    /\ merged[1].self.closure_nexits > 0
    /\ merged[1].other.fn_nexits > 0
    /\ merged[1].other.closure_nexits > 0
    /\ merged[1].other.total_space_functions # merged[1].self.total_space_functions
    /\ total(stats) = MaxExits

=============================================================================
